---- MODULE Spec2Model ----
(***************************************************************************)
(* Verification model of the OpenSASE VPP data plane                       *)
(* (src/opensase-core/vpp/plugins/opensase).                               *)
(*                                                                         *)
(* The module holds several specifications over one set of variables, one  *)
(* per part of the pipeline:                                               *)
(*   SpecStage    the batch loop shared by the ten graph nodes             *)
(*   SpecSession  the per-worker session tracker (node_security.c)         *)
(*   SpecPolicy   the policy matcher against a replaceable policy vector   *)
(*   SpecQos      the token bucket of node_qos.c                           *)
(*   SpecNat      NAT44 port allocation and translation (node_nat.c)       *)
(*   SpecIsolation session tracker + NAT44 on one worker, several tenants *)
(*   SpecEncap    the noise-tunnel data counter (node_encap.c)             *)
(* Every specification starts from Init and leaves the variables of the    *)
(* other parts unchanged.                                                  *)
(***************************************************************************)
EXTENDS Integers, Sequences, FiniteSets, TLC

VARIABLES
  \* ---- batch loop of a graph node
  st_pc,        \* "idle" | "loop" | "done"
  st_stage,     \* the node that runs the frame
  st_n,         \* frame->n_vectors
  st_left,      \* n_left_from
  st_pos,       \* b - bufs == next - nexts
  st_nexts,     \* u16 nexts[VLIB_FRAME_SIZE]; "unset" = never written
  st_out        \* what vlib_buffer_enqueue_to_next was handed: <<buffer, next>>

stageVars == <<st_pc, st_stage, st_n, st_left, st_pos, st_nexts, st_out>>

VARIABLES
  \* ---- clock and session tracker
  now,          \* vlib_time_now(), in seconds
  workers,      \* osm->workers: vector index -> opensase_worker_t
  sec_last      \* what the security node did with the last packet

sessVars == <<now, workers, sec_last>>

VARIABLES
  \* ---- policy matcher
  policies,     \* osm->policies: the version of the vector it points to
  pol_w         \* the policy node of one worker, inside a frame

polVars == <<policies, pol_w>>

VARIABLES
  \* ---- rate limiter
  qos_now,          \* vlib_time_now(), in ticks of 10 ms
  tenant_limiters,  \* token_bucket_t tenant_limiters[tenant][class]
  qos_last          \* the last call on a bucket and what it did

qosVars == <<qos_now, tenant_limiters, qos_last>>

VARIABLES
  \* ---- NAT44
  nat_workers,  \* nat_workers: vector index -> nat_worker_t
  nat_last      \* the last packet of the NAT node, before and after

natVars == <<nat_workers, nat_last>>

VARIABLES
  \* ---- encapsulator
  tunnels,      \* encap_tunnel_t tunnels[MAX_TUNNELS]
  n_tunnels,
  enc_w,        \* per thread: where it is inside encap_wireguard
  wg_emitted    \* per tunnel: the counters written into data headers

encVars == <<tunnels, n_tunnels, enc_w, wg_emitted>>

VARIABLES
  \* ---- one call of opensase_policy_match and the routing that follows it
  pm            \* the vector, the packet, the index returned, next[k]

matchVars == <<pm>>

VARIABLES
  \* ---- a packet on its way through the session tracker and the policy node
  pipe,         \* where the packet is, and what the two nodes did with it
  delivered     \* per 5-tuple: packets and bytes the policy node handed on

pipeVars == <<pipe, delivered>>

VARIABLES
  \* ---- the QoS node on a frame
  qos_out,      \* per packet of the last frame: what the node did with it
  qos_touch     \* per bucket: the threads and the tenants that charged it

qosNodeVars == <<qos_out, qos_touch>>

VARIABLES
  \* ---- one packet on its way through the node graph
  gw            \* the node that holds it, the nodes it went through, its kind

graphVars == <<gw>>

VARIABLES
  \* ---- the QoS class of one packet, from the policy node to the QoS node
  cw            \* where the packet is, its opaque fields and its IP header

classVars == <<cw>>

VARIABLES
  \* ---- tenant lookup by source address
  tenant_hash,  \* tenant_bucket_t tenant_hash[]: bucket -> four entries
  tn_last       \* the last packet of the tenant node and what it was given

tenantVars == <<tenant_hash, tn_last>>

VARIABLES
  \* ---- tenant classification by VXLAN VNI
  vni_tenant_table, \* vni_tenant_entry_t vni_tenant_table[]: index -> entry
  vx_cli,           \* the CLI command that installs a mapping, inside its writes
  vx_installed,     \* the mappings the CLI was asked to install, per VNI the last
  vx_last           \* the last packet of the classifier and what it was given

vxlanVars == <<vni_tenant_table, vx_cli, vx_installed, vx_last>>

\* node_security_inspect.c: ips_database (compiled or not), the worker's
\* counters, and the packet the worker is inspecting.
VARIABLES ips_database, ips_w, ips
ipsVars == <<ips_database, ips_w, ips>>

\* node_encap.c, the outer headers: the UDP ports of each tunnel's pre-built
\* header, the tenants whose packets each tunnel has carried, and the last
\* packet of the encap node.
VARIABLES tun_ports, tun_users, enc_last
encNodeVars == <<tun_ports, tun_users, enc_last>>

\* node_dlp.c: the counters of the worker that the DLP node writes, and the
\* last packet of the node.
VARIABLES dlp_w, dlp_last
dlpVars == <<dlp_w, dlp_last>>

\* The inspection nodes on packets with inconsistent lengths: the last packet.
VARIABLES len_last
lenVars == <<len_last>>

\* The drop counters of one worker and the packets its nodes gave to error-drop.
VARIABLES drop_w, drop_routed, drop_seen
dropVars == <<drop_w, drop_routed, drop_seen>>

\* The kernel pre-filters on one CPU: the clock, the frames run and the last
\* one; the maps of ddos_filter.c (fb_) and of xdp_ddos_filter.c (sx_).
VARIABLES xdp_now, xdp_seen, xdp_last,
          fb_stats, fb_blocklist, fb_lpm, fb_blocklist_v6, fb_rate_limits, fb_rate_state,
          sx_config, sx_allowlist, sx_blocklist, sx_src_stats, sx_proto_stats
xdpVars ==
  <<xdp_now, xdp_seen, xdp_last,
    fb_stats, fb_blocklist, fb_lpm, fb_blocklist_v6, fb_rate_limits, fb_rate_state,
    sx_config, sx_allowlist, sx_blocklist, sx_src_stats, sx_proto_stats>>

\* The control plane: the last command, its parameters and what it did.
VARIABLES cli_last
cliVars == <<cli_last>>

lateVars == <<graphVars, classVars, tenantVars, vxlanVars, ipsVars, encNodeVars, dlpVars, lenVars, dropVars, xdpVars, cliVars>>

extVars == <<matchVars, pipeVars, qosNodeVars, lateVars>>

\* The variables of the components before the node graph, and for each
\* later component the variables that are not its own.
oldVars ==
  <<stageVars, sessVars, polVars, qosVars, natVars, encVars, matchVars, pipeVars, qosNodeVars>>
\* The same without the variables of the encapsulator.
otherOldVars ==
  <<stageVars, sessVars, polVars, qosVars, natVars, matchVars, pipeVars, qosNodeVars>>
notGraph == <<oldVars, classVars, tenantVars, vxlanVars, ipsVars, encNodeVars, dlpVars, lenVars, dropVars, xdpVars, cliVars>>
notClass == <<oldVars, graphVars, tenantVars, vxlanVars, ipsVars, encNodeVars, dlpVars, lenVars, dropVars, xdpVars, cliVars>>
notTenant == <<oldVars, graphVars, classVars, vxlanVars, ipsVars, encNodeVars, dlpVars, lenVars, dropVars, xdpVars, cliVars>>
notVxlan == <<oldVars, graphVars, classVars, tenantVars, ipsVars, encNodeVars, dlpVars, lenVars, dropVars, xdpVars, cliVars>>
notIps == <<oldVars, graphVars, classVars, tenantVars, vxlanVars, encNodeVars, dlpVars, lenVars, dropVars, xdpVars, cliVars>>
notEncap == <<otherOldVars, graphVars, classVars, tenantVars, vxlanVars, ipsVars, dlpVars, lenVars, dropVars, xdpVars, cliVars>>
notDlp == <<oldVars, graphVars, classVars, tenantVars, vxlanVars, ipsVars, encNodeVars, lenVars, dropVars, xdpVars, cliVars>>
notLen == <<oldVars, graphVars, classVars, tenantVars, vxlanVars, ipsVars, encNodeVars, dlpVars, dropVars, xdpVars, cliVars>>
notDrop == <<oldVars, graphVars, classVars, tenantVars, vxlanVars, ipsVars, encNodeVars, dlpVars, lenVars, xdpVars, cliVars>>
notXdp == <<oldVars, graphVars, classVars, tenantVars, vxlanVars, ipsVars, encNodeVars, dlpVars, lenVars, dropVars, cliVars>>

vars == <<stageVars, sessVars, polVars, qosVars, natVars, encVars, extVars>>

-----------------------------------------------------------------------------
(* Bit arithmetic on 16-bit limbs.  A u32 is a pair <<hi16, lo16>>, a u64 a  *)
(* 4-tuple of limbs, most significant first.                                *)

RECURSIVE XorN(_, _, _)
XorN(a, b, n) ==
  IF n = 0 THEN 0
  ELSE (((a % 2) + (b % 2)) % 2) + (2 * XorN(a \div 2, b \div 2, n - 1))

Xor16(a, b) == XorN(a, b, 16)

\* A u32 given by a number below 2^31, as limbs, and a < b on u32 limbs.
U32(n) == <<n \div 65536, n % 65536>>
U32Lt(a, b) == a[1] < b[1] \/ (a[1] = b[1] /\ a[2] < b[2])

-----------------------------------------------------------------------------
(* The batch loop of a graph node.                                          *)

\* Largest frame the model runs (VLIB_FRAME_SIZE is 256 in VPP).
MaxFrame == 9

Stages ==
  {"tenant", "vxlan", "security", "policy", "ips", "dlp", "classify",
   "nat", "qos", "encap"}

\* The widths of the unrolled loops of each node, in the order of the loops.
StageUnroll(S) ==
  CASE S = "tenant" -> <<8, 4>>
    [] S = "dlp"    -> <<2>>
    [] OTHER        -> <<4>>

\* The next-node identifiers a node can store for the k-th packet (from 0)
\* of a group handled by an unrolled loop (unrolled = TRUE) or by the
\* single-packet loop.
StageNextChoices(S, k, unrolled) ==
  CASE S = "tenant"   -> {"SECURITY"}
    [] S = "vxlan"    -> {"ACL", "SECURITY"}
    [] S = "security" -> {"POLICY", "DROP"}
    [] S = "policy"   -> {"DLP", "CLASSIFY", "DROP"}
    [] S = "ips"      -> {"NAT", "DROP", "LOG"}
    [] S = "dlp"      -> {"CLASSIFY", "DROP", "LOG"}
    [] S = "classify" -> {"QOS"}
    [] S = "nat"      -> {"ENCRYPT", "DROP"}
    [] S = "qos"      -> IF unrolled /\ k = 0 THEN {"IP4_LOOKUP", "DROP"}
                         ELSE {"IP4_LOOKUP"}
    [] S = "encap"    -> {"OUTPUT"}

StageNextIds(S) ==
  UNION {StageNextChoices(S, k, u) : k \in 0..7, u \in BOOLEAN}

\* The width of the unrolled loop that runs with `left` buffers left, 0 when
\* only the single-packet loop can run.
RECURSIVE UnrollWidthFrom(_, _, _)
UnrollWidthFrom(ws, i, left) ==
  IF i > Len(ws) THEN 0
  ELSE IF left >= ws[i] THEN ws[i]
  ELSE UnrollWidthFrom(ws, i + 1, left)

UnrollWidth(S, left) == UnrollWidthFrom(StageUnroll(S), 1, left)

\* b += W; next += W
StagePosAfter_skip(pos, W) == pos + W + 1
StagePosAfter(pos, W) == pos + W

\* n_left_from -= W
StageLeftAfter(left, W) == left - W

StageInit ==
  /\ st_pc = "idle"
  /\ st_stage = "tenant"
  /\ st_n = 0
  /\ st_left = 0
  /\ st_pos = 0
  /\ st_nexts = [i \in 1..MaxFrame |-> "unset"]
  /\ st_out = <<>>

\* A node function is entered with a frame of n buffers: from, n_left_from,
\* bufs and nexts are set up.
StageBegin(S, n) ==
  /\ st_pc = "idle"
  /\ st_pc' = "loop"
  /\ st_stage' = S
  /\ st_n' = n
  /\ st_left' = n
  /\ st_pos' = 0
  /\ st_nexts' = [i \in 1..MaxFrame |-> "unset"]
  /\ st_out' = <<>>
  /\ UNCHANGED <<sessVars, polVars, qosVars, natVars, encVars, extVars>>

\* One iteration of an unrolled loop: next[0..W-1] are written.
StageUnrolled ==
  /\ st_pc = "loop"
  /\ LET W == UnrollWidth(st_stage, st_left) IN
     /\ W > 0
     /\ \E choice \in [0..(W - 1) -> StageNextIds(st_stage)] :
          /\ \A k \in 0..(W - 1) :
               choice[k] \in StageNextChoices(st_stage, k, TRUE)
          /\ st_nexts' =
               [i \in 1..MaxFrame |->
                  IF i > st_pos /\ i <= st_pos + W
                  THEN choice[i - st_pos - 1] ELSE st_nexts[i]]
     /\ st_pos' = StagePosAfter(st_pos, W)
     /\ st_left' = StageLeftAfter(st_left, W)
  /\ UNCHANGED <<st_pc, st_stage, st_n, st_out>>
  /\ UNCHANGED <<sessVars, polVars, qosVars, natVars, encVars, extVars>>

\* One iteration of the single-packet loop: next[0] is written.
StageSingle ==
  /\ st_pc = "loop"
  /\ UnrollWidth(st_stage, st_left) = 0
  /\ st_left > 0
  /\ st_pos + 1 <= MaxFrame
  /\ \E nx \in StageNextChoices(st_stage, 0, FALSE) :
       st_nexts' = [st_nexts EXCEPT ![st_pos + 1] = nx]
  /\ st_pos' = StagePosAfter(st_pos, 1)
  /\ st_left' = StageLeftAfter(st_left, 1)
  /\ UNCHANGED <<st_pc, st_stage, st_n, st_out>>
  /\ UNCHANGED <<sessVars, polVars, qosVars, natVars, encVars, extVars>>

\* vlib_buffer_enqueue_to_next(vm, node, from, nexts, frame->n_vectors)
StageEnqueue ==
  /\ st_pc = "loop"
  /\ st_left = 0
  /\ st_out' = [i \in 1..st_n |-> <<i, st_nexts[i]>>]
  /\ st_pc' = "done"
  /\ UNCHANGED <<st_stage, st_n, st_left, st_pos, st_nexts>>
  /\ UNCHANGED <<sessVars, polVars, qosVars, natVars, encVars, extVars>>

\* return frame->n_vectors: the frame and the arrays of the call are gone
StageReturn ==
  /\ st_pc = "done"
  /\ st_pc' = "idle"
  /\ st_stage' = "tenant"
  /\ st_n' = 0
  /\ st_left' = 0
  /\ st_pos' = 0
  /\ st_nexts' = [i \in 1..MaxFrame |-> "unset"]
  /\ st_out' = <<>>
  /\ UNCHANGED <<sessVars, polVars, qosVars, natVars, encVars, extVars>>

-----------------------------------------------------------------------------
(* Packets.  An IPv4 address is the host's view of ip4_address_t.as_u32 on a *)
(* little-endian machine, as two 16-bit limbs <<hi, lo>>.                   *)

Ip4(a, b, c, d) == <<(d * 256) + c, (b * 256) + a>>

IP_PROTOCOL_TCP == 6
IP_PROTOCOL_UDP == 17

HostA == Ip4(10, 1, 0, 5)
HostB == Ip4(10, 1, 0, 6)
Remote == Ip4(203, 0, 113, 10)

\* A second host, whose address differs from HostA's in the bit in which
\* source port 33001 differs from 33000: key[0] ^ key[1] of
\* HostA1:33001 -> Remote:443 equals that of HostA:33000 -> Remote:443.
HostA1 == Ip4(10, 1, 1, 5)

Pkt(src, dst, sp, dp, proto, tenant, len) ==
  [src |-> src, dst |-> dst, src_port |-> sp, dst_port |-> dp,
   protocol |-> proto, tenant_id |-> tenant, len |-> len]

\* The 5-tuple of a packet.
Tuple5(p) == <<p.src, p.dst, p.src_port, p.dst_port, p.protocol>>

\* The packet of the opposite direction: source and destination swapped.
Reverse(p) ==
  [p EXCEPT !.src = p.dst, !.dst = p.src,
            !.src_port = p.dst_port, !.dst_port = p.src_port]

\* Tenants the tenant classifier has stored in op->tenant_id.
PktTenants == {1, 2}

\* The 5-tuples the model sends.
Flows ==
  {<<HostA, Remote, 33000, 443, IP_PROTOCOL_TCP>>,
   <<HostB, Remote, 33000, 443, IP_PROTOCOL_TCP>>,
   <<HostA, Remote, 33001, 443, IP_PROTOCOL_TCP>>}

FlowPkts ==
  {Pkt(f[1], f[2], f[3], f[4], f[5], t, 64) : f \in Flows, t \in PktTenants}

\* clib_xxhash is a bijection on u64 (multiplications by odd constants,
\* rotations and xor-shifts), and the vppinfra hash compares whole keys: two
\* lookups meet exactly when the values hashed are equal.
clib_xxhash(key) == <<"xxhash", key>>

\* hash_get / hash_set of vppinfra on a uword -> index table; -1 for "no entry"
HashGet(h, key) == IF key \in DOMAIN h THEN h[key] ELSE -1
HashSet(h, key, v) == [k \in DOMAIN h \cup {key} |-> IF k = key THEN v ELSE h[k]]

-----------------------------------------------------------------------------
(* Session tracker: node_security.c.                                        *)

\* The threads that run graph nodes; each indexes osm->workers with
\* vlib_get_thread_index().
Threads == {0, 1}

\* The packets the session tracker is run on.
SessionPkts == {p \in FlowPkts : p.tenant_id = 1 /\ p.src_port = 33000}

\* vec_len(w->sessions): max_sessions_per_worker, 1 << 20 in the program.
MaxSessions == 2

\* Largest packets_processed of a worker the model runs.
MaxPackets == 2

\* Largest clock value the model runs, and the steps the clock takes.
MaxNow == 451
TickSteps == {150, 301}

session_timeout_secs == 300

\* key[0] ^ key[1], as four 16-bit limbs, hashed
opensase_session_hash(p, src_port, dst_port) ==
  clib_xxhash(<<Xor16(p.src[1], src_port), Xor16(p.src[2], dst_port),
                p.dst[1], Xor16(p.dst[2], p.protocol)>>)

\* src_port0 / dst_port0 of the node: the ports of TCP and UDP, else 0
L4Ports(p) ==
  IF p.protocol \in {IP_PROTOCOL_TCP, IP_PROTOCOL_UDP}
  THEN <<p.src_port, p.dst_port>> ELSE <<0, 0>>

\* A zeroed opensase_session_t.  live, creator, writers and tenants are not
\* fields of the program: they record whether the slot is in use, the thread
\* that created the session, the threads that wrote it and the tenants whose
\* packets it counted.
NoSession ==
  [live |-> FALSE, src |-> <<0, 0>>, dst |-> <<0, 0>>, src_port |-> 0,
   dst_port |-> 0, protocol |-> 0, state |-> "NEW", tenant_id |-> 0,
   packets_fwd |-> 0, bytes_fwd |-> 0, last_active |-> 0,
   creator |-> -1, writers |-> {}, tenants |-> {}]

\* opensase_action_t
PolicyActions ==
  {"ALLOW", "DENY", "LOG", "RATE_LIMIT", "REDIRECT", "ENCRYPT", "INSPECT_DLP"}

\* opensase_worker_init: the session vector, an empty hash, zeroed counters
WorkerInit ==
  [sessions |-> [i \in 0..(MaxSessions - 1) |-> NoSession],
   n_sessions |-> 0,
   session_hash |-> <<>>,
   packets_processed |-> 0,
   sessions_created |-> 0,
   sessions_expired |-> 0,
   policy_hits |-> [a \in PolicyActions |-> 0]]

\* vec_elt_at_index(osm->workers, thread_index)
WorkerIndex_shared(t) == 0
WorkerIndex(t) == t

\* opensase_session_lookup_or_create on worker record w for packet p at time
\* t_now, run by thread t: the worker record after the call, the session
\* index (-1 for NULL) and is_new.
opensase_session_lookup_or_create(w, p, t, t_now) ==
  LET ports == L4Ports(p)
      hash == opensase_session_hash(p, ports[1], ports[2])
      found == HashGet(w.session_hash, hash)
  IN IF found # -1
     THEN [w |-> w, idx |-> found, is_new |-> FALSE]
     ELSE IF w.n_sessions >= MaxSessions
     THEN [w |-> w, idx |-> -1, is_new |-> FALSE]
     ELSE LET idx == w.n_sessions
              s == [NoSession EXCEPT
                      !.live = TRUE, !.src = p.src, !.dst = p.dst,
                      !.src_port = ports[1], !.dst_port = ports[2],
                      !.protocol = p.protocol, !.state = "NEW",
                      !.last_active = t_now,
                      !.creator = t, !.writers = {t}]
          IN [w |-> [w EXCEPT !.n_sessions = idx + 1,
                              !.sessions[idx] = s,
                              !.session_hash = HashSet(w.session_hash, hash, idx),
                              !.sessions_created = w.sessions_created + 1],
              idx |-> idx, is_new |-> TRUE]

\* The per-packet body of opensase_security_node, run by thread t.
SecurityPacket(w, p, t, t_now) ==
  LET r == opensase_session_lookup_or_create(w, p, t, t_now)
      w1 == r.w
      w2 == IF r.idx = -1 THEN w1
            ELSE [w1 EXCEPT
                    !.sessions[r.idx].packets_fwd = @ + 1,
                    !.sessions[r.idx].bytes_fwd = @ + p.len,
                    !.sessions[r.idx].last_active = t_now,
                    !.sessions[r.idx].writers = @ \cup {t},
                    !.sessions[r.idx].tenants = @ \cup {p.tenant_id}]
  IN [w |-> [w2 EXCEPT !.packets_processed = @ + 1],
      idx |-> r.idx, is_new |-> r.is_new,
      next |-> IF r.idx = -1 THEN "DROP" ELSE "POLICY"]

SessionInit ==
  /\ now = 0
  /\ workers = [t \in Threads |-> WorkerInit]
  /\ sec_last = [thread |-> -1, idx |-> -1, is_new |-> FALSE, next |-> "none",
                 pkt |-> Pkt(<<0, 0>>, <<0, 0>>, 0, 0, 0, 0, 0)]

\* opensase_security_node run by thread t on a frame holding packet p.
SecurityNode(t, p) ==
  /\ workers[WorkerIndex(t)].packets_processed < MaxPackets
  /\ LET r == SecurityPacket(workers[WorkerIndex(t)], p, t, now) IN
     /\ workers' = [workers EXCEPT ![WorkerIndex(t)] = r.w]
     /\ sec_last' = [thread |-> t, idx |-> r.idx, is_new |-> r.is_new,
                     next |-> r.next, pkt |-> p]
  /\ UNCHANGED now
  /\ UNCHANGED <<stageVars, polVars, qosVars, natVars, encVars, extVars>>

\* The monotonic clock advances.
Tick(d) ==
  /\ now + d <= MaxNow
  /\ now' = now + d
  /\ UNCHANGED <<workers, sec_last>>
  /\ UNCHANGED <<stageVars, polVars, qosVars, natVars, encVars, extVars>>

\* A session the expiry sweep removes: idle for longer than session_timeout.
SessionExpired(s, t_now) ==
  s.live /\ t_now - s.last_active > session_timeout_secs

\* opensase_session_expire_walk on worker record w: every expired session is
\* removed and its hash entry released.
opensase_session_expire_walk(w, t_now) ==
  LET dead == {i \in 0..(MaxSessions - 1) : SessionExpired(w.sessions[i], t_now)}
      keep == {k \in DOMAIN w.session_hash : w.session_hash[k] \notin dead}
  IN [w EXCEPT
        !.sessions = [i \in 0..(MaxSessions - 1) |->
                        IF i \in dead
                        THEN [w.sessions[i] EXCEPT !.live = FALSE,
                                                   !.state = "CLOSED"]
                        ELSE w.sessions[i]],
        !.session_hash = [k \in keep |-> w.session_hash[k]],
        !.sessions_expired = @ + Cardinality(dead)]

\* The sweep runs on thread t between two frames.
ExpireWalk(t) ==
  /\ \E i \in 0..(MaxSessions - 1) :
       SessionExpired(workers[WorkerIndex(t)].sessions[i], now)
  /\ workers' = [workers EXCEPT
                   ![WorkerIndex(t)] = opensase_session_expire_walk(@, now)]
  /\ UNCHANGED <<now, sec_last>>
  /\ UNCHANGED <<stageVars, polVars, qosVars, natVars, encVars, extVars>>

-----------------------------------------------------------------------------
(* Policy matcher: node_policy.c.                                           *)

\* vec_len(osm->policies): OPENSASE_MAX_POLICIES, 65536 in the program.
NPolicies == 2

\* Number of times the control plane replaces the vector.
MaxPolicyVersion == 2

\* Largest frame of the policy node the model runs (below the unroll width:
\* the single-packet loop).
MaxPolicyFrame == 2

\* An address in network byte order, as two 16-bit limbs <<hi, lo>>.
NetOrder(addr) ==
  <<((addr[2] % 256) * 256) + (addr[2] \div 256),
    ((addr[1] % 256) * 256) + (addr[1] \div 256)>>

RECURSIVE Pow2(_)
Pow2(n) == IF n = 0 THEN 1 ELSE 2 * Pow2(n - 1)

\* (a & htonl(mask)) == (b & htonl(mask)) with mask = ~0 << (32 - len),
\* for 1 <= len <= 32
PrefixEq(a, b, len) ==
  LET x == NetOrder(a)
      y == NetOrder(b)
  IN IF len <= 16
     THEN x[1] \div Pow2(16 - len) = y[1] \div Pow2(16 - len)
     ELSE x[1] = y[1] /\ x[2] \div Pow2(32 - len) = y[2] \div Pow2(32 - len)

\* A zeroed opensase_policy_t: an unused entry of the vector.
NoPolicy ==
  [policy_id |-> 0, priority |-> U32(0), tenant_id |-> 0,
   src_prefix |-> <<0, 0>>, src_prefix_len |-> 0,
   dst_prefix |-> <<0, 0>>, dst_prefix_len |-> 0,
   protocol |-> 0, src_port_min |-> 0, src_port_max |-> 0,
   dst_port_min |-> 0, dst_port_max |-> 0,
   action |-> "ALLOW", qos_class |-> 0]

\* The vectors the control plane installs.  Version 0 is the vector of
\* opensase_init: every entry unused.  Later versions alternate between a
\* vector that allows HTTPS from 10.1.0.0/16 and one that sends it to DLP;
\* each ends with a deny-all entry of lower precedence.
PolicyVector(v) ==
  [i \in 0..(NPolicies - 1) |->
     IF v = 0 THEN NoPolicy
     ELSE IF i = 0
     THEN [NoPolicy EXCEPT
             !.policy_id = (10 * v) + 1, !.priority = U32(10),
             !.src_prefix = Ip4(10, 1, 0, 0), !.src_prefix_len = 16,
             !.protocol = IP_PROTOCOL_TCP,
             !.dst_port_min = 443, !.dst_port_max = 443,
             !.action = IF v % 2 = 1 THEN "ALLOW" ELSE "INSPECT_DLP",
             !.qos_class = v % 2]
     ELSE [NoPolicy EXCEPT
             !.policy_id = (10 * v) + 1 + i, !.priority = U32(100 + i),
             !.action = "DENY", !.qos_class = 4]]

\* The body of the loop of opensase_policy_match for one entry: does entry
\* pol match the packet?
PolicyEntryMatches(pol, p, src_port, dst_port, tenant_id) ==
  /\ ~(pol.policy_id = 0 /\ pol.priority = U32(0))
  /\ ~(pol.tenant_id # 0 /\ pol.tenant_id # tenant_id)
  /\ (pol.src_prefix_len > 0 =>
        PrefixEq(p.src, pol.src_prefix, pol.src_prefix_len))
  /\ (pol.dst_prefix_len > 0 =>
        PrefixEq(p.dst, pol.dst_prefix, pol.dst_prefix_len))
  /\ ~(pol.protocol # 0 /\ pol.protocol # p.protocol)
  /\ ((pol.src_port_min # 0 \/ pol.src_port_max # 0) =>
        ~(src_port < pol.src_port_min \/ src_port > pol.src_port_max))
  /\ ((pol.dst_port_min # 0 \/ pol.dst_port_max # 0) =>
        ~(dst_port < pol.dst_port_min \/ dst_port > pol.dst_port_max))

\* u32 best_priority = ~0 before any match
NoPriority == <<65535, 65535>>

\* The switch of the policy node on the action of the winning policy.
PolicyNextOfAction(action) ==
  CASE action = "DENY"        -> "DROP"
    [] action = "INSPECT_DLP" -> "DLP"
    [] OTHER                  -> "CLASSIFY"

\* osm->dlp_enabled as opensase_init sets it
dlp_enabled == TRUE

PolicyIdle ==
  [pc |-> "idle", pkt |-> Pkt(<<0, 0>>, <<0, 0>>, 0, 0, 0, 0, 0),
   left |-> 0, i |-> 0, best_match |-> -1, best_priority |-> NoPriority,
   next |-> "none", policy_id |-> 0,
   read_pkt |-> {}, read_frame |-> {}]

PolicyInit ==
  /\ policies = 0
  /\ pol_w = PolicyIdle

\* The control plane replaces the vector: osm->policies points to the next
\* version.
PolicySwap ==
  /\ policies < MaxPolicyVersion
  /\ policies' = policies + 1
  /\ UNCHANGED pol_w
  /\ UNCHANGED <<stageVars, sessVars, qosVars, natVars, encVars, extVars>>

\* opensase_policy_node is entered with a frame of n packets like p.
PolicyBegin(p, n) ==
  /\ pol_w.pc = "idle"
  /\ pol_w' = [PolicyIdle EXCEPT !.pc = "match", !.pkt = p, !.left = n]
  /\ UNCHANGED policies
  /\ UNCHANGED <<stageVars, sessVars, qosVars, natVars, encVars, extVars>>

\* Whether entry `pol` replaces the best match so far:
\* p->priority < best_priority
PolicyBetter(pol, best_priority) == U32Lt(pol.priority, best_priority)

\* One iteration of vec_foreach_index(i, osm->policies) in
\* opensase_policy_match: entry i of the vector osm->policies points to now.
PolicyMatchEntry ==
  /\ pol_w.pc = "match"
  /\ pol_w.i < NPolicies
  /\ LET pol == PolicyVector(policies)[pol_w.i]
         ports == L4Ports(pol_w.pkt)
         hit == /\ PolicyEntryMatches(pol, pol_w.pkt, ports[1], ports[2],
                                      pol_w.pkt.tenant_id)
                /\ PolicyBetter(pol, pol_w.best_priority)
     IN pol_w' = [pol_w EXCEPT
                    !.i = @ + 1,
                    !.best_match = IF hit THEN pol_w.i ELSE @,
                    !.best_priority = IF hit THEN pol.priority ELSE @,
                    !.read_pkt = @ \cup {policies},
                    !.read_frame = @ \cup {policies}]
  /\ UNCHANGED policies
  /\ UNCHANGED <<stageVars, sessVars, qosVars, natVars, encVars, extVars>>

\* The loop is over: the node applies the winning policy, which it takes
\* from osm->policies again, and stores next[0].
PolicyApply ==
  /\ pol_w.pc = "match"
  /\ pol_w.i >= NPolicies
  /\ LET matched == pol_w.best_match # -1
         pol == IF matched THEN PolicyVector(policies)[pol_w.best_match]
                ELSE NoPolicy
     IN pol_w' = [pol_w EXCEPT
                    !.pc = "applied",
                    !.policy_id = IF matched THEN pol.policy_id ELSE 0,
                    !.next = IF matched THEN PolicyNextOfAction(pol.action)
                             ELSE IF dlp_enabled THEN "DLP" ELSE "CLASSIFY",
                    !.read_pkt = IF matched THEN @ \cup {policies} ELSE @,
                    !.read_frame = IF matched THEN @ \cup {policies} ELSE @]
  /\ UNCHANGED policies
  /\ UNCHANGED <<stageVars, sessVars, qosVars, natVars, encVars, extVars>>

\* b += 1; next += 1; n_left_from -= 1, and the next packet or the end of
\* the frame.
PolicyAdvance ==
  /\ pol_w.pc = "applied"
  /\ pol_w' = IF pol_w.left > 1
              THEN [pol_w EXCEPT !.pc = "match", !.left = @ - 1, !.i = 0,
                                 !.best_match = -1,
                                 !.best_priority = NoPriority,
                                 !.read_pkt = {}]
              ELSE PolicyIdle
  /\ UNCHANGED policies
  /\ UNCHANGED <<stageVars, sessVars, qosVars, natVars, encVars, extVars>>

\* opensase_policy_match run to its end on one vector: the loop from entry i
\* on, with best_match and best_priority so far; -1 for ~0 (no match).
RECURSIVE PolicyMatchFrom(_, _, _, _, _, _, _, _)
PolicyMatchFrom(vec, i, best_match, best_priority, p, src_port, dst_port, tenant_id) ==
  IF i >= NPolicies THEN best_match
  ELSE LET hit == /\ PolicyEntryMatches(vec[i], p, src_port, dst_port, tenant_id)
                  /\ PolicyBetter(vec[i], best_priority)
       IN PolicyMatchFrom(vec, i + 1,
                          IF hit THEN i ELSE best_match,
                          IF hit THEN vec[i].priority ELSE best_priority,
                          p, src_port, dst_port, tenant_id)

opensase_policy_match(vec, p, src_port, dst_port, tenant_id) ==
  PolicyMatchFrom(vec, 0, -1, NoPriority, p, src_port, dst_port, tenant_id)

\* next[k] of the policy node for a packet whose match returned policy_idx
\* in vector vec: the switch of packet 0 and of the single-packet loop, the
\* conditional expressions of packets 1 to 3 of the unrolled loop.
PolicyNext(vec, policy_idx, unrolled, k) ==
  IF policy_idx # -1
  THEN IF unrolled /\ k > 0
       THEN (IF vec[policy_idx].action = "DENY" THEN "DROP"
             ELSE IF vec[policy_idx].action = "INSPECT_DLP" THEN "DLP"
             ELSE "CLASSIFY")
       ELSE PolicyNextOfAction(vec[policy_idx].action)
  ELSE IF dlp_enabled THEN "DLP" ELSE "CLASSIFY"

\* The entries the vectors handed to opensase_policy_match are built from:
\* two entries of the same priority, a more specific deny of better
\* priority, an entry of the largest u32 priority, an unused entry and an
\* entry of another tenant restricted to low source ports.
MatchEntries ==
  {[NoPolicy EXCEPT !.policy_id = 1, !.priority = U32(10),
                    !.src_prefix = Ip4(10, 1, 0, 0), !.src_prefix_len = 16,
                    !.protocol = IP_PROTOCOL_TCP,
                    !.dst_port_min = 443, !.dst_port_max = 443,
                    !.action = "ALLOW"],
   [NoPolicy EXCEPT !.policy_id = 2, !.priority = U32(10),
                    !.action = "INSPECT_DLP"],
   [NoPolicy EXCEPT !.policy_id = 3, !.priority = U32(5),
                    !.dst_prefix = Remote, !.dst_prefix_len = 32,
                    !.action = "DENY"],
   [NoPolicy EXCEPT !.policy_id = 4, !.priority = <<65535, 65535>>,
                    !.action = "ALLOW"],
   NoPolicy,
   [NoPolicy EXCEPT !.policy_id = 6, !.priority = U32(1), !.tenant_id = 2,
                    !.src_port_min = 1, !.src_port_max = 1024,
                    !.action = "LOG"]}

MatchVectors == [0..(NPolicies - 1) -> MatchEntries]

\* The packets handed to opensase_policy_match.
MatchPkts ==
  {Pkt(HostA, Remote, 33000, 443, IP_PROTOCOL_TCP, 1, 64),
   Pkt(Remote, HostA, 443, 33000, IP_PROTOCOL_TCP, 1, 64),
   Pkt(HostA, HostB, 33000, 80, IP_PROTOCOL_UDP, 1, 64),
   Pkt(Remote, HostB, 1000, 443, IP_PROTOCOL_TCP, 2, 64)}

MatchInit ==
  pm = [op |-> "none", vec |-> [i \in 0..(NPolicies - 1) |-> NoPolicy],
        pkt |-> Pkt(<<0, 0>>, <<0, 0>>, 0, 0, 0, 0, 0),
        policy_idx |-> -1, unrolled |-> FALSE, k |-> 0, next |-> "none"]

\* The policy node matches packet p against vector vec and stores next[k];
\* the packet is the k-th of a group of the unrolled loop or the packet of
\* the single-packet loop.
PolicyMatchCall(vec, p, unrolled, k) ==
  /\ LET ports == L4Ports(p)
         policy_idx == opensase_policy_match(vec, p, ports[1], ports[2],
                                             p.tenant_id)
     IN pm' = [op |-> "match", vec |-> vec, pkt |-> p,
               policy_idx |-> policy_idx, unrolled |-> unrolled, k |-> k,
               next |-> PolicyNext(vec, policy_idx, unrolled, k)]
  /\ UNCHANGED <<stageVars, sessVars, polVars, qosVars, natVars, encVars>>
  /\ UNCHANGED <<pipeVars, qosNodeVars, lateVars>>

-----------------------------------------------------------------------------
(* A packet through the session tracker and then the policy node of the     *)
(* same worker: opensase-security hands its frame to opensase-policy.       *)

\* What the worker record held before a packet entered the session tracker.
WorkerSnapshot(w) ==
  [n_sessions |-> w.n_sessions, sessions_created |-> w.sessions_created,
   session_hash |-> w.session_hash, policy_hits |-> w.policy_hits]

\* Largest packets_processed of the worker the two nodes run on: one more
\* than the session vector holds, so that a new flow meets a full table.
MaxPipePackets == 3

PipeIdle ==
  [pc |-> "idle", thread |-> -1, pkt |-> Pkt(<<0, 0>>, <<0, 0>>, 0, 0, 0, 0, 0),
   idx |-> -1, before |-> WorkerSnapshot(WorkerInit),
   matched |-> FALSE, action |-> "none", next |-> "none"]

PipeInit ==
  /\ pipe = PipeIdle
  /\ delivered = <<>>

\* Packets and bytes handed on for 5-tuple `key` of thread t.
Delivered(d, t, key) ==
  IF <<t, key>> \in DOMAIN d THEN d[<<t, key>>] ELSE [packets |-> 0, bytes |-> 0]

\* opensase_security_node run by thread t on a frame holding packet p; the
\* frame goes to opensase-policy, or the packet to error-drop.
PipeSecurity(t, p) ==
  /\ pipe.pc = "idle"
  /\ workers[WorkerIndex(t)].packets_processed < MaxPipePackets
  /\ LET r == SecurityPacket(workers[WorkerIndex(t)], p, t, now) IN
     /\ workers' = [workers EXCEPT ![WorkerIndex(t)] = r.w]
     /\ sec_last' = [thread |-> t, idx |-> r.idx, is_new |-> r.is_new,
                     next |-> r.next, pkt |-> p]
     /\ pipe' = [pc |-> IF r.next = "POLICY" THEN "policy" ELSE "idle",
                 thread |-> t, pkt |-> p, idx |-> r.idx,
                 before |-> WorkerSnapshot(workers[WorkerIndex(t)]),
                 matched |-> FALSE, action |-> "none", next |-> r.next]
  /\ UNCHANGED <<now, delivered>>
  /\ UNCHANGED <<stageVars, polVars, qosVars, natVars, encVars>>
  /\ UNCHANGED <<matchVars, qosNodeVars, lateVars>>

\* opensase_policy_node on the frame the session tracker handed on.
PipePolicy ==
  /\ pipe.pc = "policy"
  /\ LET vec == PolicyVector(policies)
         ports == L4Ports(pipe.pkt)
         policy_idx == opensase_policy_match(vec, pipe.pkt, ports[1], ports[2],
                                             pipe.pkt.tenant_id)
         matched == policy_idx # -1
         action == IF matched THEN vec[policy_idx].action ELSE "none"
         nx == PolicyNext(vec, policy_idx, FALSE, 0)
         w == WorkerIndex(pipe.thread)
         key == <<pipe.thread, Tuple5(pipe.pkt)>>
         old == Delivered(delivered, pipe.thread, Tuple5(pipe.pkt))
     IN /\ workers' = IF matched
                      THEN [workers EXCEPT ![w].policy_hits[action] = @ + 1]
                      ELSE workers
        /\ pipe' = [pipe EXCEPT !.pc = "idle", !.matched = matched,
                                !.action = action, !.next = nx]
        /\ delivered' =
             IF nx = "DROP" THEN delivered
             ELSE [k \in DOMAIN delivered \cup {key} |->
                     IF k = key
                     THEN [packets |-> old.packets + 1,
                           bytes |-> old.bytes + pipe.pkt.len]
                     ELSE delivered[k]]
  /\ UNCHANGED <<now, sec_last>>
  /\ UNCHANGED <<stageVars, polVars, qosVars, natVars, encVars>>
  /\ UNCHANGED <<matchVars, qosNodeVars, lateVars>>

-----------------------------------------------------------------------------
(* The node graph: the next_nodes of the VLIB_REGISTER_NODE of every node   *)
(* and the next index each node function writes.  A packet is described by  *)
(* what decides its way: the verdicts of the lookups and scanners.          *)

\* Nodes of VPP the plugin hands packets to.
GraphDrop == "error-drop"
GraphOutputNodes ==
  {"ip4-lookup", "wireguard-if-output", "interface-output", "nat44-in2out"}
GraphLeaves == GraphOutputNodes \cup {GraphDrop, "acl-plugin-in-ip4-fa"}

\* Where packets enter: the nodes no node of the plugin names as a next
\* node, and opensase-security, which is also a feature of ip4-unicast.
GraphEntries ==
  {"opensase-tenant", "tenant-classifier", "opensase-security", "opensase-nat"}

\* What decides the way of a packet.
GraphKinds ==
  [acl_bypass : BOOLEAN,               \* VNI found and flagged acl_bypass
   session : BOOLEAN,                  \* lookup_or_create returned a session
   policy : PolicyActions \cup {"none"}, \* action of the best match, if any
   ips : {"none", "alert", "drop"},    \* result of ips_scan_packet
   dlp : {"none", "log", "drop"},      \* what the DLP patterns found
   limited : BOOLEAN,                  \* rate_limit_check refused the packet
   mapping : BOOLEAN]                  \* nat_translate returned a mapping

GraphIdle ==
  [node |-> "none", path |-> <<>>,
   kind |-> [acl_bypass |-> FALSE, session |-> FALSE, policy |-> "none",
             ips |-> "none", dlp |-> "none", limited |-> FALSE,
             mapping |-> FALSE]]

GraphInit == gw = GraphIdle

\* The walk after the packet left its node for `nx`.
GraphMove(nx) == [gw EXCEPT !.node = nx, !.path = Append(@, gw.node)]

\* A packet of kind k is handed to an entry node.
GraphEnter(entry, k) ==
  /\ gw.node = "none"
  /\ gw' = [node |-> entry, path |-> <<>>, kind |-> k]
  /\ UNCHANGED notGraph

\* The packet has been handed to a node of VPP: the plugin is done with it.
GraphLeave ==
  /\ gw.node \in GraphLeaves
  /\ gw' = GraphIdle
  /\ UNCHANGED notGraph

\* opensase_tenant_node: every packet goes to opensase-security.
GraphTenant ==
  /\ gw.node = "opensase-tenant"
  /\ gw' = GraphMove("opensase-security")
  /\ UNCHANGED notGraph

\* tenant_classifier_node: security-inspect for a VNI flagged acl_bypass,
\* the ACL for every other packet.
GraphTenantClassifier ==
  /\ gw.node = "tenant-classifier"
  /\ gw' = GraphMove(IF gw.kind.acl_bypass THEN "security-inspect"
                     ELSE "acl-plugin-in-ip4-fa")
  /\ UNCHANGED notGraph

\* opensase_security_node: opensase-policy with a session, else drop.
GraphSecurity ==
  /\ gw.node = "opensase-security"
  /\ gw' = GraphMove(IF gw.kind.session THEN "opensase-policy" ELSE GraphDrop)
  /\ UNCHANGED notGraph

\* opensase_policy_node
GraphPolicy ==
  /\ gw.node = "opensase-policy"
  /\ gw' = GraphMove(LET nx == IF gw.kind.policy = "none"
                                THEN (IF dlp_enabled THEN "DLP" ELSE "CLASSIFY")
                                ELSE PolicyNextOfAction(gw.kind.policy)
                     IN CASE nx = "DROP" -> GraphDrop
                          [] nx = "DLP" -> "opensase-dlp"
                          [] nx = "CLASSIFY" -> "opensase-classify"
                          [] OTHER -> "ip4-lookup")
  /\ UNCHANGED notGraph

\* opensase_dlp_node: drop on a credit card or SSN match; NEXT_LOG and
\* NEXT_CLASSIFY are both opensase-classify.
GraphDlp ==
  /\ gw.node = "opensase-dlp"
  /\ gw' = GraphMove(IF gw.kind.dlp = "drop" THEN GraphDrop ELSE "opensase-classify")
  /\ UNCHANGED notGraph

\* opensase_classify_node: every packet goes to opensase-qos.
GraphClassify ==
  /\ gw.node = "opensase-classify"
  /\ gw' = GraphMove("opensase-qos")
  /\ UNCHANGED notGraph

\* opensase_qos_node: ip4-lookup, or drop for a rate-limited packet.
GraphQos ==
  /\ gw.node = "opensase-qos"
  /\ gw' = GraphMove(IF gw.kind.limited THEN GraphDrop ELSE "ip4-lookup")
  /\ UNCHANGED notGraph

\* security_inspect_node: drop on a drop match; NEXT_LOG and NEXT_NAT are
\* both nat44-in2out.
GraphSecurityInspect ==
  /\ gw.node = "security-inspect"
  /\ gw' = GraphMove(IF gw.kind.ips = "drop" THEN GraphDrop ELSE "nat44-in2out")
  /\ UNCHANGED notGraph

\* opensase_nat_node: opensase-encap with a mapping, else drop.
GraphNat ==
  /\ gw.node = "opensase-nat"
  /\ gw' = GraphMove(IF gw.kind.mapping THEN "opensase-encap" ELSE GraphDrop)
  /\ UNCHANGED notGraph

\* opensase_encap_node: every packet goes to interface-output.
GraphEncap ==
  /\ gw.node = "opensase-encap"
  /\ gw' = GraphMove("interface-output")
  /\ UNCHANGED notGraph

-----------------------------------------------------------------------------
(* Rate limiter: node_qos.c.  Time is counted in ticks of 10 ms and tokens  *)
(* in bytes: a rate of r Mbps is r * 125000 bytes per second, that is       *)
(* r * 1250 bytes per tick, and the burst of 100 ms is ten ticks of it.     *)

\* Largest clock value the model runs, in ticks.
MaxQosNow == 3

\* The buckets the model configures and charges: tenant_limiters[tenant][class].
QosBuckets == {<<1, 4>>, <<2, 4>>}

\* rate_mbps of "opensase qos rate-limit"
QosRates == {0, 1, 2}

\* vlib_buffer_length_in_chain of the packets charged
QosPacketBytes == {0, 1500, 30000}

BytesPerTickPerMbps == 1250
BurstTicks == 10

\* A zeroed token_bucket_t: the static array before any configuration.
NoBucket == [tokens |-> 0, last_update |-> 0, rate_bps |-> 0, burst_bytes |-> 0]

\* init_rate_limiter(tb, rate_mbps); rate_bps is kept in bytes per tick
init_rate_limiter(rate_mbps) ==
  LET rate == rate_mbps * BytesPerTickPerMbps
  IN [tokens |-> rate * BurstTicks, last_update |-> 0,
      rate_bps |-> rate, burst_bytes |-> rate * BurstTicks]

\* if (tb->tokens > tb->burst_bytes) tb->tokens = tb->burst_bytes
TokensCapped_none(tokens, burst_bytes) == tokens
TokensCapped(tokens, burst_bytes) ==
  IF tokens > burst_bytes THEN burst_bytes ELSE tokens

\* rate_limit_check(tb, packet_bytes, now): the bucket after the call, the
\* value returned, and whether the refill ran into the burst
rate_limit_check(tb, packet_bytes, t_now) ==
  LET raw == tb.tokens + ((t_now - tb.last_update) * tb.rate_bps)
      refilled == IF tb.last_update > 0
                  THEN TokensCapped(raw, tb.burst_bytes) ELSE tb.tokens
      allow == refilled >= packet_bytes
  IN [tb |-> [tb EXCEPT !.tokens = IF allow THEN refilled - packet_bytes
                                   ELSE refilled,
                        !.last_update = t_now],
      allow |-> allow,
      capped |-> tb.last_update > 0 /\ raw > tb.burst_bytes]

QosInit ==
  /\ qos_now = 0
  /\ tenant_limiters = [k \in QosBuckets |-> NoBucket]
  /\ qos_last = [op |-> "none", bucket |-> <<0, 0>>, allow |-> FALSE,
                 capped |-> FALSE]

\* opensase_qos_config_fn with a valid tenant and class
QosConfig(k, rate_mbps) ==
  /\ tenant_limiters' = [tenant_limiters EXCEPT ![k] = init_rate_limiter(rate_mbps)]
  /\ qos_last' = [op |-> "init", bucket |-> k, allow |-> FALSE,
                  capped |-> FALSE]
  /\ UNCHANGED qos_now
  /\ UNCHANGED <<stageVars, sessVars, polVars, natVars, encVars, extVars>>

\* rate_limit_check on bucket k for a packet of `bytes` bytes at the time of
\* the clock
QosCheck(k, bytes) ==
  /\ LET r == rate_limit_check(tenant_limiters[k], bytes, qos_now) IN
     /\ tenant_limiters' = [tenant_limiters EXCEPT ![k] = r.tb]
     /\ qos_last' = [op |-> "check", bucket |-> k, allow |-> r.allow,
                     capped |-> r.capped]
  /\ UNCHANGED qos_now
  /\ UNCHANGED <<stageVars, sessVars, polVars, natVars, encVars, extVars>>

\* The monotonic clock advances by one tick.
QosTick ==
  /\ qos_now < MaxQosNow
  /\ qos_now' = qos_now + 1
  /\ UNCHANGED <<tenant_limiters, qos_last>>
  /\ UNCHANGED <<stageVars, sessVars, polVars, natVars, encVars, extVars>>

-----------------------------------------------------------------------------
(* The QoS node on a frame: node_qos.c.                                     *)

MAX_TENANT_LIMITERS == 1024
OPENSASE_QOS_REALTIME == 0
OPENSASE_QOS_BUSINESS_CRITICAL == 1
OPENSASE_QOS_DEFAULT == 2
OPENSASE_QOS_BULK == 3
OPENSASE_QOS_SCAVENGER == 4
OPENSASE_QOS_N_CLASSES == 5

\* Largest frame of the QoS node the model runs.
MaxQosFrame == 5

\* The packets of the frames: op->tenant_id, op->qos_class and the length.
QosNodePkts ==
  {[tenant_id |-> 1, qos_class |-> OPENSASE_QOS_SCAVENGER, len |-> 6000],
   [tenant_id |-> 1025, qos_class |-> OPENSASE_QOS_SCAVENGER, len |-> 6000],
   [tenant_id |-> 1, qos_class |-> OPENSASE_QOS_DEFAULT, len |-> 6000]}

\* The frames: n packets of one kind, for every kind and every n.
QosFrames == {[i \in 1..n |-> pkt] : n \in 1..MaxQosFrame, pkt \in QosNodePkts}

\* &tenant_limiters[op0->tenant_id % MAX_TENANT_LIMITERS][OPENSASE_QOS_SCAVENGER]
QosBucketOf(pkt) ==
  <<pkt.tenant_id % MAX_TENANT_LIMITERS, OPENSASE_QOS_SCAVENGER>>

\* What the node did with a packet.  limited and enough are not values of
\* the program: whether the bucket of the packet had a rate when the packet
\* had its turn, and whether the bucket, refilled, held the packet's bytes.
QosResult(pkt, tl, t_now, checked, nx, rate_limited) ==
  [tenant_id |-> pkt.tenant_id, qos_class |-> pkt.qos_class, len |-> pkt.len,
   limited |-> tl[QosBucketOf(pkt)].rate_bps > 0,
   enough |-> rate_limit_check(tl[QosBucketOf(pkt)], pkt.len, t_now).allow,
   checked |-> checked, next |-> nx, rate_limited |-> rate_limited]

\* Packet 0 of a group of the unrolled loop: next[0], and the rate limit of
\* the scavenger class.
QosPacketChecked(pkt, tl, t_now) ==
  LET k == QosBucketOf(pkt)
      consult == pkt.qos_class = OPENSASE_QOS_SCAVENGER /\ tl[k].rate_bps > 0
      r == rate_limit_check(tl[k], pkt.len, t_now)
  IN IF consult
     THEN [tl |-> [tl EXCEPT ![k] = r.tb], bucket |-> {k},
           out |-> QosResult(pkt, tl, t_now, TRUE,
                             IF r.allow THEN "IP4_LOOKUP" ELSE "DROP",
                             ~r.allow)]
     ELSE [tl |-> tl, bucket |-> {},
           out |-> QosResult(pkt, tl, t_now, FALSE, "IP4_LOOKUP", FALSE)]

\* Packets 1 to 3 of a group and the packets of the single-packet loop:
\* next[k] = OPENSASE_QOS_NEXT_IP4_LOOKUP
QosPacketPlain(pkt, tl, t_now) ==
  [tl |-> tl, bucket |-> {},
   out |-> QosResult(pkt, tl, t_now, FALSE, "IP4_LOOKUP", FALSE)]

\* One packet of a frame: pos is its place in the frame (from 1), left the
\* value of n_left_from when the loop iteration that handles it began and
\* first the place of the first packet of that iteration.
QosPacketAt(frame, pos, first, left, tl, t_now) ==
  IF left >= 4 /\ pos = first
  THEN QosPacketChecked(frame[pos], tl, t_now)
  ELSE QosPacketPlain(frame[pos], tl, t_now)

\* The two loops of opensase_qos_node from packet pos on, run by thread t.
RECURSIVE QosNodeFrom(_, _, _, _, _, _, _, _)
QosNodeFrom(frame, pos, first, left, tl, out, touch, ctx) ==
  IF pos > Len(frame) THEN [tl |-> tl, out |-> out, touch |-> touch]
  ELSE LET r == QosPacketAt(frame, pos, first, left, tl, ctx.now)
           touched == [k \in DOMAIN touch |->
                         IF k \in r.bucket
                         THEN [threads |-> touch[k].threads \cup {ctx.thread},
                               tenants |-> touch[k].tenants \cup
                                             {frame[pos].tenant_id}]
                         ELSE touch[k]]
           last == IF left >= 4 THEN pos = first + 3 ELSE TRUE
       IN QosNodeFrom(frame, pos + 1,
                      IF last THEN pos + 1 ELSE first,
                      IF last THEN Len(frame) - pos ELSE left,
                      r.tl, Append(out, r.out), touched, ctx)

QosNodeInit ==
  /\ qos_out = <<>>
  /\ qos_touch = [k \in QosBuckets |-> [threads |-> {}, tenants |-> {}]]

\* opensase_qos_node run by thread t on a frame, at the time of the clock.
QosNode(t, frame) ==
  /\ LET r == QosNodeFrom(frame, 1, 1, Len(frame), tenant_limiters, <<>>,
                          qos_touch, [thread |-> t, now |-> qos_now])
     IN /\ tenant_limiters' = r.tl
        /\ qos_out' = r.out
        /\ qos_touch' = r.touch
  /\ UNCHANGED <<qos_now, qos_last>>
  /\ UNCHANGED <<stageVars, sessVars, polVars, natVars, encVars>>
  /\ UNCHANGED <<matchVars, pipeVars, lateVars>>

-----------------------------------------------------------------------------
(* The QoS class of a packet: written by the policy node, completed by the  *)
(* application classifier (node_classify.c), turned into a DSCP by the QoS  *)
(* node (node_qos.c).                                                       *)

\* static u8 qos_to_dscp[]
qos_to_dscp(qos_class) ==
  CASE qos_class = OPENSASE_QOS_REALTIME -> 46
    [] qos_class = OPENSASE_QOS_BUSINESS_CRITICAL -> 26
    [] qos_class = OPENSASE_QOS_DEFAULT -> 0
    [] qos_class = OPENSASE_QOS_BULK -> 10
    [] qos_class = OPENSASE_QOS_SCAVENGER -> 8

\* The 16-bit words of an IPv4 header without options, but for the word of
\* version, header length and ToS and for the checksum: total length,
\* identification, flags and offset, TTL and protocol, the two addresses.
Ip4HeaderRest == <<60, 7238, 16384, 16390, 44048, 2659, 44048, 2572>>

RECURSIVE SeqSum(_)
SeqSum(q) == IF q = <<>> THEN 0 ELSE Head(q) + SeqSum(Tail(q))

\* End-around carry of a sum of 16-bit words
Fold16(n) ==
  LET a == (n % 65536) + (n \div 65536) IN (a % 65536) + (a \div 65536)

\* ip4_header_checksum: the one's complement of the one's complement sum of
\* the header words, the checksum word left out.
ip4_header_checksum(ip4) ==
  65535 - Fold16((69 * 256) + ip4.tos + SeqSum(Ip4HeaderRest))

\* An IPv4 header as it arrives: ToS byte tos, and the checksum of it.
Ip4Header(tos) ==
  [tos |-> tos, checksum |-> ip4_header_checksum([tos |-> tos])]

\* apply_dscp with the ECN bits cleared, not kept.
apply_dscp_clear_ecn(ip4, qos_class) ==
  LET dscp == IF qos_class < OPENSASE_QOS_N_CLASSES
              THEN qos_to_dscp(qos_class) ELSE 0
      new_tos == (dscp * 4) % 256
  IN IF ip4.tos # new_tos
     THEN [tos |-> new_tos, checksum |-> ip4_header_checksum(ip4)]
     ELSE ip4

\* apply_dscp: the header after the call.  The checksum is computed on the
\* header as it stands, then the ToS byte is written.
apply_dscp(ip4, qos_class) ==
  LET dscp == IF qos_class < OPENSASE_QOS_N_CLASSES
              THEN qos_to_dscp(qos_class) ELSE 0
      old_tos == ip4.tos
      new_tos == ((dscp * 4) % 256) + (old_tos % 4)
  IN IF old_tos # new_tos
     THEN [tos |-> new_tos, checksum |-> ip4_header_checksum(ip4)]
     ELSE ip4

\* static port_app_mapping_t port_map[], without its terminator
port_map ==
  <<[port |-> 80, app_id |-> "APP_HTTP", qos_class |-> OPENSASE_QOS_DEFAULT],
    [port |-> 443, app_id |-> "APP_HTTPS", qos_class |-> OPENSASE_QOS_DEFAULT],
    [port |-> 53, app_id |-> "APP_DNS", qos_class |-> OPENSASE_QOS_REALTIME],
    [port |-> 22, app_id |-> "APP_SSH", qos_class |-> OPENSASE_QOS_BUSINESS_CRITICAL],
    [port |-> 3389, app_id |-> "APP_RDP", qos_class |-> OPENSASE_QOS_BUSINESS_CRITICAL],
    [port |-> 25, app_id |-> "APP_SMTP", qos_class |-> OPENSASE_QOS_BULK],
    [port |-> 143, app_id |-> "APP_IMAP", qos_class |-> OPENSASE_QOS_DEFAULT],
    [port |-> 993, app_id |-> "APP_IMAP", qos_class |-> OPENSASE_QOS_DEFAULT],
    [port |-> 21, app_id |-> "APP_FTP", qos_class |-> OPENSASE_QOS_BULK],
    [port |-> 3306, app_id |-> "APP_MYSQL", qos_class |-> OPENSASE_QOS_BUSINESS_CRITICAL],
    [port |-> 5432, app_id |-> "APP_POSTGRESQL", qos_class |-> OPENSASE_QOS_BUSINESS_CRITICAL],
    [port |-> 27017, app_id |-> "APP_MONGODB", qos_class |-> OPENSASE_QOS_BUSINESS_CRITICAL],
    [port |-> 6379, app_id |-> "APP_REDIS", qos_class |-> OPENSASE_QOS_REALTIME],
    [port |-> 11211, app_id |-> "APP_MEMCACHED", qos_class |-> OPENSASE_QOS_REALTIME],
    [port |-> 389, app_id |-> "APP_LDAP", qos_class |-> OPENSASE_QOS_BUSINESS_CRITICAL],
    [port |-> 636, app_id |-> "APP_LDAP", qos_class |-> OPENSASE_QOS_BUSINESS_CRITICAL],
    [port |-> 88, app_id |-> "APP_KERBEROS", qos_class |-> OPENSASE_QOS_REALTIME],
    [port |-> 445, app_id |-> "APP_SMB", qos_class |-> OPENSASE_QOS_BUSINESS_CRITICAL],
    [port |-> 2049, app_id |-> "APP_NFS", qos_class |-> OPENSASE_QOS_BULK],
    [port |-> 554, app_id |-> "APP_RTSP", qos_class |-> OPENSASE_QOS_REALTIME]>>

\* classify_by_port: the first entry of port_map for dst_port, else unknown
\* and the default class.
classify_by_port(dst_port) ==
  LET hits == {i \in 1..Len(port_map) : port_map[i].port = dst_port}
  IN IF hits = {}
     THEN [app_id |-> "APP_UNKNOWN", qos_class |-> OPENSASE_QOS_DEFAULT]
     ELSE LET m == port_map[CHOOSE i \in hits : \A j \in hits : i <= j]
          IN [app_id |-> m.app_id, qos_class |-> m.qos_class]

\* The per-packet body of opensase_classify_node on opaque op: the QUIC
\* check is made on packet 0 of a group of the unrolled loop only; quic is
\* what detect_quic returns on the payload.
ClassifyPacket(op, dst_port, protocol, first_of_four, quic) ==
  LET c == classify_by_port(dst_port)
      q == IF first_of_four /\ dst_port = 443 /\ protocol = IP_PROTOCOL_UDP /\ quic
           THEN [app_id |-> "APP_QUIC", qos_class |-> OPENSASE_QOS_BUSINESS_CRITICAL]
           ELSE c
  IN [op EXCEPT !.app_id = q.app_id,
                !.qos_class = IF op.qos_class = 0 THEN q.qos_class ELSE op.qos_class]

\* Destination ports, ToS bytes and opaque values of the packets sent.
ClassPorts == {443, 53, 25, 9999}
ClassTos == {0, 3, 184, 185, 255}
ClassStale == {0, 4, 9}

\* Largest number of times the QoS node marks one packet.
MaxMarks == 2

\* Every value of a ToS byte, and the values of op->qos_class handed to
\* apply_dscp: the five classes and values that are no class.
AllTos == 0..255
DscpClasses == 0..7 \cup {255}

\* marks and first are not fields of the program: the number of times the
\* QoS node has marked the packet and the header after the first time.
ClassIdle ==
  [pc |-> "idle", dst_port |-> 0, protocol |-> 0, matched |-> FALSE,
   policy_class |-> 0, op |-> [app_id |-> "APP_UNKNOWN", qos_class |-> 0],
   before |-> Ip4Header(0), ip4 |-> Ip4Header(0),
   marks |-> 0, first |-> Ip4Header(0)]

ClassInit == cw = ClassIdle

\* opensase_policy_node on a packet: a matching policy of class qos_class
\* writes op->qos_class; without a match the opaque keeps the value that
\* the buffer held, which qos_class then stands for.
ClassPolicy(dst_port, protocol, tos, matched, qos_class) ==
  /\ cw.pc = "idle"
  /\ cw' = [pc |-> "classify", dst_port |-> dst_port, protocol |-> protocol,
            matched |-> matched, policy_class |-> qos_class,
            op |-> [app_id |-> "APP_UNKNOWN", qos_class |-> qos_class],
            before |-> Ip4Header(tos), ip4 |-> Ip4Header(tos),
            marks |-> 0, first |-> Ip4Header(tos)]
  /\ UNCHANGED notClass

\* opensase_classify_node on the packet.
ClassClassify(first_of_four, quic) ==
  /\ cw.pc = "classify"
  /\ cw' = [cw EXCEPT !.pc = "qos",
                      !.op = ClassifyPacket(@, cw.dst_port, cw.protocol,
                                            first_of_four, quic)]
  /\ UNCHANGED notClass

\* opensase_qos_node on the packet: apply_dscp with the class of the opaque.
ClassQos ==
  /\ cw.pc = "qos"
  /\ LET ip4 == apply_dscp(cw.ip4, cw.op.qos_class) IN
       cw' = [cw EXCEPT !.pc = "idle", !.ip4 = ip4, !.marks = @ + 1,
                        !.first = IF cw.marks = 0 THEN ip4 ELSE @]
  /\ UNCHANGED notClass

\* A packet with ToS byte tos and class qos_class in its opaque is handed
\* to opensase-qos.
ClassArrive(tos, qos_class) ==
  /\ cw = ClassIdle
  /\ cw' = [ClassIdle EXCEPT !.pc = "qos", !.op.qos_class = qos_class,
                             !.before = Ip4Header(tos), !.ip4 = Ip4Header(tos),
                             !.first = Ip4Header(tos)]
  /\ UNCHANGED notClass

\* A packet the QoS node has marked is handed to it again, with the same
\* class.
ClassRemark ==
  /\ cw.pc = "idle"
  /\ cw.marks \in 1..(MaxMarks - 1)
  /\ cw' = [cw EXCEPT !.pc = "qos"]
  /\ UNCHANGED notClass

-----------------------------------------------------------------------------
(* Tenant lookup by source address: node_tenant.c.                          *)

\* Number of "opensase tenant add" commands the model runs.
MaxTenantAdds == 3

\* The prefixes the commands install and the source addresses looked up.
TenantNet16 == Ip4(10, 1, 0, 0)
TenantNet24b == Ip4(10, 1, 1, 0)
TenantPrefixes == {<<TenantNet16, 16>>, <<TenantNet16, 24>>, <<TenantNet24b, 24>>}
TenantSources == {TenantNet16, HostA, HostA1, Ip4(10, 2, 0, 1)}
TenantIds == {1, 2}
TenantVrfs == {0, 7}

\* clib_xxhash(as_u32) & TENANT_HASH_MASK: the bucket of an address.  The
\* model gives every address it uses a bucket of its own, as 65536 buckets
\* do for a handful of addresses.
TenantBucket(as_u32) == <<"bucket", clib_xxhash(as_u32)>>

TenantBuckets == {TenantBucket(a) : a \in TenantSources \cup {TenantNet24b}}

\* A zeroed tenant_entry_t
NoTenantEntry ==
  [src_prefix |-> <<0, 0>>, prefix_len |-> 0, tenant_id |-> 0, vrf_id |-> 0,
   valid |-> FALSE]

TenantInit ==
  /\ tenant_hash = [k \in TenantBuckets |-> [i \in 0..3 |-> NoTenantEntry]]
  /\ tn_last = [src |-> <<0, 0>>, tenant_id |-> -1, vrf_id |-> -1, adds |-> 0]

\* tenant_lookup_fast: the first valid entry of the bucket of the source
\* address whose prefix holds the address, else tenant 0 and VRF 0.
tenant_lookup_fast(th, src_ip) ==
  LET bucket == th[TenantBucket(src_ip)]
      hits == {i \in 0..3 : bucket[i].valid /\
                            PrefixEq(src_ip, bucket[i].src_prefix, bucket[i].prefix_len)}
  IN IF hits = {}
     THEN [tenant_id |-> 0, vrf_id |-> 0]
     ELSE LET e == bucket[CHOOSE i \in hits : \A j \in hits : i <= j]
          IN [tenant_id |-> e.tenant_id, vrf_id |-> e.vrf_id]

\* opensase_tenant_add_fn: the mapping goes into the first free entry of the
\* bucket of the prefix address; "hash bucket full" leaves the table as it is.
opensase_tenant_add_fn(th, prefix, prefix_len, tenant_id, vrf_id) ==
  LET k == TenantBucket(prefix)
      free == {i \in 0..3 : ~th[k][i].valid}
  IN IF free = {} THEN th
     ELSE [th EXCEPT ![k][CHOOSE i \in free : \A j \in free : i <= j] =
             [src_prefix |-> prefix, prefix_len |-> prefix_len,
              tenant_id |-> tenant_id, vrf_id |-> vrf_id, valid |-> TRUE]]

\* The CLI command "opensase tenant add <prefix>/<len> tenant <id> vrf <id>"
TenantAdd(prefix, prefix_len, tenant_id, vrf_id) ==
  /\ tn_last.adds < MaxTenantAdds
  /\ tenant_hash' = opensase_tenant_add_fn(tenant_hash, prefix, prefix_len,
                                           tenant_id, vrf_id)
  /\ tn_last' = [tn_last EXCEPT !.adds = @ + 1, !.tenant_id = -1, !.vrf_id = -1]
  /\ UNCHANGED notTenant

\* opensase_tenant_node on a packet of source address src_ip: the tenant
\* written to op->tenant_id.
TenantNode(src_ip) ==
  /\ LET r == tenant_lookup_fast(tenant_hash, src_ip) IN
       tn_last' = [tn_last EXCEPT !.src = src_ip, !.tenant_id = r.tenant_id,
                                  !.vrf_id = r.vrf_id]
  /\ UNCHANGED tenant_hash
  /\ UNCHANGED notTenant

-----------------------------------------------------------------------------
(* Tenant classification by VXLAN VNI: node_vxlan_classifier.c.             *)

VNI_TENANT_TABLE_SIZE == 65536

\* Number of "opensase tenant vni add" commands the model runs.
MaxVniAdds == 2

\* The VNIs of the commands (0, two small ones, one that shares the table
\* index of VNI 1), and the VNIs of the frames (3 is never installed).
VxCliVnis == {0, 1, 2, VNI_TENANT_TABLE_SIZE + 1}
VxPktVnis == {1, 2, 3, VNI_TENANT_TABLE_SIZE + 1}
VxTenants == {1, 2}
VxVrfs == {0, 7}

\* The three VNI bytes of a VXLAN header carrying vni
VniBytes(vni) == <<vni \div 65536, (vni \div 256) % 256, vni % 256>>

\* The frames sent: VXLAN carriers, other UDP, and TCP to port 4789
VxPkts ==
  {[protocol |-> IP_PROTOCOL_UDP, dst_port |-> 4789, vni |-> VniBytes(v)] : v \in VxPktVnis}
  \cup {[protocol |-> IP_PROTOCOL_UDP, dst_port |-> 53, vni |-> VniBytes(1)],
        [protocol |-> IP_PROTOCOL_TCP, dst_port |-> 4789, vni |-> VniBytes(1)]}

\* extract_vxlan_vni
extract_vxlan_vni(vxlan) == (vxlan.vni[1] * 65536) + (vxlan.vni[2] * 256) + vxlan.vni[3]

\* is_vxlan_packet
is_vxlan_packet(ip4) == ip4.protocol = IP_PROTOCOL_UDP /\ ip4.dst_port = 4789

\* A zeroed vni_tenant_entry_t
NoVniEntry ==
  [vni |-> 0, tenant_id |-> 0, vrf_id |-> 0, valid |-> FALSE, acl_bypass |-> FALSE]

\* vni & VNI_TENANT_TABLE_MASK
VniIndex(vni) == vni % VNI_TENANT_TABLE_SIZE

\* The entries of the table the model reaches.
VniIndices == {VniIndex(v) : v \in VxCliVnis \cup VxPktVnis}

\* lookup_tenant_by_vni: the entry, or NoVniEntry for NULL
lookup_tenant_by_vni(table, vni) ==
  LET entry == table[VniIndex(vni)]
  IN IF entry.valid /\ entry.vni = vni THEN entry ELSE NoVniEntry

VxCliIdle ==
  [pc |-> "idle", vni |-> 0, tenant_id |-> 0, vrf_id |-> 0, acl_bypass |-> FALSE,
   adds |-> 0]

VxInit ==
  /\ vni_tenant_table = [i \in VniIndices |-> NoVniEntry]
  /\ vx_cli = VxCliIdle
  /\ vx_installed = [all |-> {}, now |-> [v \in VxCliVnis |-> NoVniEntry]]
  /\ vx_last = [fresh |-> FALSE, is_vxlan |-> FALSE, vni |-> 0, found |-> FALSE,
                entry |-> NoVniEntry, tenant_id |-> -1, next |-> "none",
                advance |-> 0]

\* tenant_vni_add_command sets no is_mp_safe: the command runs with the
\* workers held at the barrier, between two frames.
tenant_vni_add_is_mp_safe_set == TRUE
tenant_vni_add_is_mp_safe == FALSE

\* tenant_vni_add_fn, the parsing of the command and the test of the VNI:
\* "VNI required" for VNI 0, else the writes begin.
VniAddBegin(vni, tenant_id, vrf_id, acl_bypass) ==
  /\ vx_cli.pc = "idle"
  /\ vx_cli.adds < MaxVniAdds
  /\ vx_cli' = [pc |-> IF vni = 0 THEN "idle" ELSE "vni", vni |-> vni,
                tenant_id |-> tenant_id, vrf_id |-> vrf_id,
                acl_bypass |-> acl_bypass, adds |-> vx_cli.adds + 1]
  /\ vx_installed' =
       IF vni = 0 THEN vx_installed
       ELSE [vx_installed EXCEPT
               !.all = @ \cup {[vni |-> vni, tenant_id |-> tenant_id,
                               vrf_id |-> vrf_id, valid |-> TRUE,
                               acl_bypass |-> acl_bypass]}]
  /\ vx_last' = [vx_last EXCEPT !.fresh = FALSE]
  /\ UNCHANGED vni_tenant_table
  /\ UNCHANGED notVxlan

\* The five assignments of tenant_vni_add_fn, one at a time.
VniAddWrite ==
  /\ vx_cli.pc # "idle"
  /\ LET idx == VniIndex(vx_cli.vni) IN
       vni_tenant_table' =
         CASE vx_cli.pc = "vni" -> [vni_tenant_table EXCEPT ![idx].vni = vx_cli.vni]
           [] vx_cli.pc = "tenant_id" -> [vni_tenant_table EXCEPT ![idx].tenant_id = vx_cli.tenant_id]
           [] vx_cli.pc = "vrf_id" -> [vni_tenant_table EXCEPT ![idx].vrf_id = vx_cli.vrf_id]
           [] vx_cli.pc = "acl_bypass" -> [vni_tenant_table EXCEPT ![idx].acl_bypass = vx_cli.acl_bypass]
           [] vx_cli.pc = "valid" -> [vni_tenant_table EXCEPT ![idx].valid = TRUE]
  /\ vx_cli' = [vx_cli EXCEPT !.pc =
                  CASE vx_cli.pc = "vni" -> "tenant_id"
                    [] vx_cli.pc = "tenant_id" -> "vrf_id"
                    [] vx_cli.pc = "vrf_id" -> "acl_bypass"
                    [] vx_cli.pc = "acl_bypass" -> "valid"
                    [] vx_cli.pc = "valid" -> "idle"]
  /\ vx_installed' =
       IF vx_cli.pc = "valid"
       THEN [vx_installed EXCEPT
               !.now[vx_cli.vni] = [vni |-> vx_cli.vni, tenant_id |-> vx_cli.tenant_id,
                                    vrf_id |-> vx_cli.vrf_id, valid |-> TRUE,
                                    acl_bypass |-> vx_cli.acl_bypass]]
       ELSE vx_installed
  /\ UNCHANGED vx_last
  /\ UNCHANGED notVxlan

\* The per-packet body of tenant_classifier_node
VxPacket(table, p) ==
  LET vx == is_vxlan_packet(p)
      vni == IF vx THEN extract_vxlan_vni(p) ELSE 0
      te == IF vx THEN lookup_tenant_by_vni(table, vni) ELSE NoVniEntry
  IN [fresh |-> TRUE, is_vxlan |-> vx, vni |-> vni, found |-> te.valid,
      entry |-> te,
      tenant_id |-> IF te.valid THEN te.tenant_id ELSE 0,
      next |-> IF te.valid /\ te.acl_bypass THEN "security-inspect"
               ELSE "acl-plugin-in-ip4-fa",
      advance |-> IF vx THEN 20 + 8 + 8 ELSE 0]

\* tenant_classifier_node run by a worker on a frame holding packet p.
VxClassify(p) ==
  /\ tenant_vni_add_is_mp_safe \/ vx_cli.pc = "idle"
  /\ vx_last' = VxPacket(vni_tenant_table, p)
  /\ UNCHANGED <<vni_tenant_table, vx_cli, vx_installed>>
  /\ UNCHANGED notVxlan

-----------------------------------------------------------------------------
(* IPS: node_security_inspect.c.                                            *)

IPS_CAT_MALWARE == 0
IPS_CAT_EXPLOIT == 1
IPS_CAT_BOTNET == 2
IPS_CAT_CVE == 3
IPS_CAT_POLICY == 4
IPS_CAT_N_CATEGORIES == 5

IPS_ACTION_ALERT == 0
IPS_ACTION_DROP == 1
IPS_ACTION_REJECT == 2

\* A protocol that is neither TCP nor UDP (ICMP).
IpsOtherProtocols == {1}

\* default_signatures[]: id, category and action of each entry (the patterns
\* are matched by the pattern library, which reports the ids that match).
default_signatures ==
  { [id |-> 1001, category |-> IPS_CAT_MALWARE, action |-> IPS_ACTION_DROP],
    [id |-> 1002, category |-> IPS_CAT_MALWARE, action |-> IPS_ACTION_DROP],
    [id |-> 1003, category |-> IPS_CAT_MALWARE, action |-> IPS_ACTION_DROP],
    [id |-> 2001, category |-> IPS_CAT_EXPLOIT, action |-> IPS_ACTION_DROP],
    [id |-> 2002, category |-> IPS_CAT_EXPLOIT, action |-> IPS_ACTION_DROP],
    [id |-> 2003, category |-> IPS_CAT_EXPLOIT, action |-> IPS_ACTION_DROP],
    [id |-> 3001, category |-> IPS_CAT_BOTNET, action |-> IPS_ACTION_DROP],
    [id |-> 3002, category |-> IPS_CAT_BOTNET, action |-> IPS_ACTION_ALERT],
    [id |-> 4001, category |-> IPS_CAT_CVE, action |-> IPS_ACTION_DROP],
    [id |-> 4002, category |-> IPS_CAT_CVE, action |-> IPS_ACTION_DROP],
    [id |-> 5001, category |-> IPS_CAT_POLICY, action |-> IPS_ACTION_ALERT] }

SignatureIds == {s.id : s \in default_signatures}
SigOf(id) == CHOOSE s \in default_signatures : s.id = id

\* Signatures that match one payload in the model.
MaxMatches == 3

\* Packets one worker inspects in the model.
MaxIpsPackets == 2

\* The sets of signatures a payload can match, up to MaxMatches of them.
IpsMatchSets == {m \in SUBSET SignatureIds : Cardinality(m) <= MaxMatches}

\* A payload: pre filler bytes, the bytes of pat, post filler bytes.
IpsFiller == "x"
IpsJndi == <<"$", "{", "j", "n", "d", "i", ":">>
IpsUnionUpper == <<"U", "N", "I", "O", "N">>
IpsUnionMixed == <<"u", "N", "i", "o", "n">>
IpsPatterns == {IpsJndi, IpsUnionUpper, IpsUnionMixed, <<>>}
IpsPre == {0, 40, 1493, 1495}
IpsPost == {0, 3, 4, 5, 12}
IpsPayloads == [pre : IpsPre, pat : IpsPatterns, post : IpsPost]

PayloadLen(pl) == pl.pre + Len(pl.pat) + pl.post

\* data[i], i counted from 0.
ByteAt(pl, i) ==
  IF i >= pl.pre /\ i < pl.pre + Len(pl.pat) THEN pl.pat[i - pl.pre + 1] ELSE IpsFiller

\* Packets: the protocol of the IPv4 header and the L4 payload.
IpsPkts ==
  [protocol : {IP_PROTOCOL_TCP, IP_PROTOCOL_UDP}, payload : IpsPayloads]
    \cup [protocol : IpsOtherProtocols, payload : {[pre |-> 0, pat |-> IpsJndi, post |-> 12]}]

\* Packets given to the pattern library in the model.
IpsHsPkts ==
  { [protocol |-> IP_PROTOCOL_TCP, payload |-> [pre |-> 40, pat |-> <<>>, post |-> 12]],
    [protocol |-> IP_PROTOCOL_UDP, payload |-> [pre |-> 0, pat |-> <<>>, post |-> 0]],
    [protocol |-> 1, payload |-> [pre |-> 0, pat |-> <<>>, post |-> 12]] }

\* ips_scan_packet: "Initialize result" (category is left as it was; it is
\* read only when matched is set).
IpsNoMatch ==
  [signature_id |-> 0, action |-> IPS_ACTION_ALERT, category |-> 0, matched |-> FALSE]

\* hs_match_handler: "Only update if higher severity action".
hs_action_lower(sig_action, result_action) == sig_action < result_action

hs_action_higher(sig_action, result_action) == sig_action > result_action

\* hs_match_handler: the result after the callback for signature id.
hs_match_handler(result, id) ==
  IF id \notin SignatureIds THEN result
  ELSE LET sig == SigOf(id)
       IN IF ~result.matched \/ hs_action_higher(sig.action, result.action)
          THEN [signature_id |-> id, action |-> sig.action,
                category |-> sig.category, matched |-> TRUE]
          ELSE result

\* hs_match_handler's return value: non-zero stops the scan.
hs_match_stops(result) == result.action = IPS_ACTION_DROP

\* simple_pattern_scan: the Log4j loop, for (i = 0; i < len - 10; i++).
SimpleJndiHit(pl, len) ==
  /\ len >= 10
  /\ \E i \in 0..(len - 11) :
       /\ ByteAt(pl, i) = "$"
       /\ ByteAt(pl, i + 1) = "{"
       /\ ByteAt(pl, i + 2) \in {"j", "J"}

\* simple_pattern_scan: the SQL loop, for (i = 0; i < len - 6; i++).
SimpleUnionHit(pl, len) ==
  /\ len >= 6
  /\ \E i \in 0..(len - 7) :
       /\ ByteAt(pl, i) \in {"U", "u"}
       /\ ByteAt(pl, i + 1) \in {"N", "n"}
       /\ ByteAt(pl, i + 2) \in {"I", "i"}
       /\ ByteAt(pl, i + 3) \in {"O", "o"}
       /\ ByteAt(pl, i + 4) \in {"N", "n"}

simple_pattern_scan(pl, len, result) ==
  IF SimpleJndiHit(pl, len)
  THEN [signature_id |-> 4001, action |-> IPS_ACTION_DROP,
        category |-> IPS_CAT_CVE, matched |-> TRUE]
  ELSE IF SimpleUnionHit(pl, len)
  THEN [signature_id |-> 2003, action |-> IPS_ACTION_DROP,
        category |-> IPS_CAT_EXPLOIT, matched |-> TRUE]
  ELSE result

\* ips_scan_packet: whether the payload is scanned, and how many bytes of it.
IpsScanned(p) ==
  /\ p.protocol \in {IP_PROTOCOL_TCP, IP_PROTOCOL_UDP}
  /\ PayloadLen(p.payload) # 0
  /\ PayloadLen(p.payload) <= 65535

IpsScanLen(p) == IF PayloadLen(p.payload) > 1500 THEN 1500 ELSE PayloadLen(p.payload)

\* security_inspect_node: the counters and the next node for one result.
IpsNextOf(res) ==
  IF res.matched
  THEN IF res.action = IPS_ACTION_DROP THEN "error-drop" ELSE "nat44-in2out"
  ELSE "nat44-in2out"

IpsAccount(w, res) ==
  [w EXCEPT !.packets_scanned = @ + 1,
            !.signatures_matched = IF res.matched THEN @ + 1 ELSE @,
            !.category_hits[res.category] = IF res.matched THEN @ + 1 ELSE @,
            !.packets_blocked =
              IF res.matched /\ res.action = IPS_ACTION_DROP THEN @ + 1 ELSE @]

IpsIdle ==
  [pc |-> "idle", path |-> "none", pkt |-> [protocol |-> 0, payload |-> [pre |-> 0, pat |-> <<>>, post |-> 0]],
   matches |-> {}, pending |-> {}, seen |-> <<>>, stopped |-> FALSE,
   result |-> IpsNoMatch, next |-> "none", hits_before |-> 0]

IpsWorkerInit ==
  [packets_scanned |-> 0, bytes_scanned |-> 0, signatures_matched |-> 0,
   packets_blocked |-> 0, category_hits |-> [c \in 0..(IPS_CAT_N_CATEGORIES - 1) |-> 0]]

IpsInit ==
  /\ ips_database = "uninit"
  /\ ips_w = IpsWorkerInit
  /\ ips = IpsIdle

\* security_inspect_init: the pattern database is compiled, or it is not
\* (a build without the pattern library, or a compile error).
security_inspect_init(compiled) ==
  /\ ips_database = "uninit"
  /\ ips_database' = IF compiled THEN "compiled" ELSE "none"
  /\ UNCHANGED <<ips_w, ips>>
  /\ UNCHANGED notIps

\* security_inspect_node with the pattern database: ips_scan_packet up to
\* the call of hs_scan on a payload that matches the signatures of matches.
IpsHsBegin(p, matches) ==
  /\ ips_database = "compiled"
  /\ ips.pc = "idle"
  /\ ips_w.packets_scanned < MaxIpsPackets
  /\ ips' = [IpsIdle EXCEPT !.pc = "scanning", !.path = "hs", !.pkt = p,
                            !.matches = IF IpsScanned(p) THEN matches ELSE {},
                            !.pending = IF IpsScanned(p) THEN matches ELSE {},
                            !.hits_before = ips_w.category_hits[IPS_CAT_CVE]]
  /\ ips_w' = [ips_w EXCEPT !.bytes_scanned = IF IpsScanned(p) THEN @ + IpsScanLen(p) ELSE @]
  /\ UNCHANGED ips_database
  /\ UNCHANGED notIps

\* hs_scan calls hs_match_handler for one more matching signature, in any
\* order, until a callback returns non-zero.
IpsHsCallback(id) ==
  /\ ips.pc = "scanning"
  /\ ~ips.stopped
  /\ id \in ips.pending
  /\ LET r == hs_match_handler(ips.result, id)
     IN ips' = [ips EXCEPT !.result = r, !.pending = @ \ {id},
                           !.seen = Append(@, id), !.stopped = hs_match_stops(r)]
  /\ UNCHANGED <<ips_database, ips_w>>
  /\ UNCHANGED notIps

\* hs_scan has returned: the node counts the result and chooses the next node.
IpsHsFinish ==
  /\ ips.pc = "scanning"
  /\ ips.stopped \/ ips.pending = {}
  /\ ips' = [ips EXCEPT !.pc = "done", !.next = IpsNextOf(ips.result)]
  /\ ips_w' = IpsAccount(ips_w, ips.result)
  /\ UNCHANGED ips_database
  /\ UNCHANGED notIps

\* security_inspect_node without the pattern database, on one packet.
IpsFallbackNode(p) ==
  /\ ips_database = "none"
  /\ ips.pc = "idle"
  /\ ips_w.packets_scanned < MaxIpsPackets
  /\ LET res == IF IpsScanned(p)
                THEN simple_pattern_scan(p.payload, IpsScanLen(p), IpsNoMatch)
                ELSE IpsNoMatch
         w1 == [ips_w EXCEPT !.bytes_scanned = IF IpsScanned(p) THEN @ + IpsScanLen(p) ELSE @]
     IN /\ ips' = [IpsIdle EXCEPT !.pc = "done", !.path = "simple", !.pkt = p,
                                  !.result = res, !.next = IpsNextOf(res),
                                  !.hits_before = ips_w.category_hits[IPS_CAT_CVE]]
        /\ ips_w' = IpsAccount(w1, res)
  /\ UNCHANGED ips_database
  /\ UNCHANGED notIps

\* The frame is handed on; the node waits for the next one.
IpsReturn ==
  /\ ips.pc = "done"
  /\ ips' = IpsIdle
  /\ UNCHANGED <<ips_database, ips_w>>
  /\ UNCHANGED notIps

-----------------------------------------------------------------------------
(* DLP: node_dlp.c.  osm->hs_database is NULL from opensase_init on and no  *)
(* code sets it, so the node always runs dlp_simple_scan.                   *)

OPENSASE_DLP_MAX_MATCH_DEPTH == 4096

DLP_CATEGORY_CREDIT_CARD == 0
DLP_CATEGORY_SSN == 1
DLP_N_CATEGORIES == 7

\* Packets one worker inspects in the model.
MaxDlpPackets == 2

DlpDigits == {"0", "1", "2", "3", "4", "5", "6", "7", "8", "9"}

\* Payload contents: runs of 12, 13, 19 and 20 digits, 16 digits in groups
\* with spaces and a dash, a social security number, and nothing.
DlpRun12 == <<"4", "1", "1", "1", "1", "1", "1", "1", "1", "1", "1", "1">>
DlpRun13 == DlpRun12 \o <<"1">>
DlpRun19 == DlpRun13 \o <<"1", "1", "1", "1", "1", "1">>
DlpRun20 == DlpRun19 \o <<"1">>
DlpGrouped ==
  <<"4", "1", "1", "1", " ", "1", "1", "1", "1", "-", "1", "1", "1", "1", " ", "1", "1", "1", "1">>
DlpSsn == <<"1", "2", "3", "-", "4", "5", "-", "6", "7", "8", "9">>
DlpPatterns == {DlpRun12, DlpRun13, DlpRun19, DlpRun20, DlpGrouped, DlpSsn, <<>>}
DlpPre == {0, 40}
DlpPost == {0, 5}
\* Offsets that put 13 digits and the social security number at the end of
\* the 4096 bytes scanned, and across it.
DlpFarPre == {4083, 4085}
DlpPayloads ==
  [pre : DlpPre, pat : DlpPatterns, post : DlpPost]
    \cup [pre : DlpFarPre, pat : {DlpRun13, DlpSsn}, post : DlpPost]

DlpPkts ==
  [protocol : {IP_PROTOCOL_TCP, IP_PROTOCOL_UDP}, payload : DlpPayloads]
    \cup [protocol : IpsOtherProtocols, payload : {[pre |-> 0, pat |-> DlpSsn, post |-> 5]}]

\* get_payload: *payload_len; 0 with a NULL payload for other protocols.
get_payload_len(p) ==
  IF p.protocol \in {IP_PROTOCOL_TCP, IP_PROTOCOL_UDP}
  THEN IF PayloadLen(p.payload) > OPENSASE_DLP_MAX_MATCH_DEPTH
       THEN OPENSASE_DLP_MAX_MATCH_DEPTH ELSE PayloadLen(p.payload)
  ELSE 0

\* dlp_simple_scan, first loop: consecutive_digits after byte i, a digit.
\* The counter counts the digits since the last byte that is neither a
\* digit nor a space nor a dash.
DlpDigitAt(pl, i) == ByteAt(pl, i) \in DlpDigits
DlpResetAt(pl, i) == ByteAt(pl, i) \notin (DlpDigits \cup {" ", "-"})
consecutive_digits(pl, i) ==
  Cardinality({j \in 0..i : DlpDigitAt(pl, j) /\ \A k \in j..i : ~DlpResetAt(pl, k)})

\* The matches the first loop counts: one for every digit at which the
\* counter is within 13..19.
DlpCreditCardHits(pl, len) ==
  Cardinality({i \in 0..(len - 1) :
                 /\ DlpDigitAt(pl, i)
                 /\ consecutive_digits(pl, i) >= 13
                 /\ consecutive_digits(pl, i) <= 19})

\* The last index of the second loop, for (i = 0; i + 10 < len; i++).
DlpSsnLastShort(len) == len - 12

DlpSsnLast(len) == len - 11

\* The matches the second loop counts: XXX-XX-XXXX at i.
DlpSsnAt(pl, i) ==
  /\ DlpDigitAt(pl, i) /\ DlpDigitAt(pl, i + 1) /\ DlpDigitAt(pl, i + 2)
  /\ ByteAt(pl, i + 3) = "-"
  /\ DlpDigitAt(pl, i + 4) /\ DlpDigitAt(pl, i + 5)
  /\ ByteAt(pl, i + 6) = "-"
  /\ DlpDigitAt(pl, i + 7) /\ DlpDigitAt(pl, i + 8) /\ DlpDigitAt(pl, i + 9)
  /\ DlpDigitAt(pl, i + 10)

DlpSsnHits(pl, len) == Cardinality({i \in 0..DlpSsnLast(len) : DlpSsnAt(pl, i)})

\* dlp_match_context_t ctx = {0}
DlpNoMatch == [match_count |-> 0, match_categories |-> [c \in 0..(DLP_N_CATEGORIES - 1) |-> 0]]

\* dlp_simple_scan: the context after the call.
dlp_simple_scan(pl, len) ==
  LET cc == DlpCreditCardHits(pl, len)
      ssn == DlpSsnHits(pl, len)
  IN [match_count |-> cc + ssn,
      match_categories |-> [c \in 0..(DLP_N_CATEGORIES - 1) |->
                              IF c = DLP_CATEGORY_CREDIT_CARD THEN cc
                              ELSE IF c = DLP_CATEGORY_SSN THEN ssn ELSE 0]]

\* The context dlp_simple_scan leaves for each packet of the model (an
\* empty one where the node does not call it).
DlpContexts ==
  {<<p, IF get_payload_len(p) > 0
        THEN dlp_simple_scan(p.payload, get_payload_len(p)) ELSE DlpNoMatch>> : p \in DlpPkts}

DlpContextOf(p) == (CHOOSE c \in DlpContexts : c[1] = p)[2]

\* opensase_dlp_node: next[0] for a context, and the node it names.
DlpNextOf(ctx) ==
  IF ctx.match_count > 0
  THEN IF ctx.match_categories[DLP_CATEGORY_CREDIT_CARD] > 0
          \/ ctx.match_categories[DLP_CATEGORY_SSN] > 0
       THEN "OPENSASE_DLP_NEXT_DROP" ELSE "OPENSASE_DLP_NEXT_LOG"
  ELSE "OPENSASE_DLP_NEXT_CLASSIFY"

DlpNextNode(next) ==
  IF next = "OPENSASE_DLP_NEXT_DROP" THEN "error-drop" ELSE "opensase-classify"

\* dlp_w holds the fields of osm->workers[thread] that the node writes.
DlpInit ==
  /\ dlp_w = [dlp_patterns_matched |-> 0, dlp_bytes_inspected |-> 0,
              packets_dropped |-> 0, packets |-> 0]
  /\ dlp_last = [fresh |-> FALSE, pkt |-> [protocol |-> 0, payload |-> [pre |-> 0, pat |-> <<>>, post |-> 0]],
                 ctx |-> DlpNoMatch, next |-> "none", node |-> "none",
                 inspected |-> FALSE]

\* opensase_dlp_node on one packet.
DlpNode(p) ==
  /\ dlp_w.packets < MaxDlpPackets
  /\ LET len == get_payload_len(p)
         ctx == DlpContextOf(p)
         next == DlpNextOf(ctx)
     IN /\ dlp_last' = [fresh |-> TRUE, pkt |-> p, ctx |-> ctx, next |-> next,
                        node |-> DlpNextNode(next), inspected |-> TRUE]
        /\ dlp_w' = [dlp_patterns_matched |-> dlp_w.dlp_patterns_matched + ctx.match_count,
                     dlp_bytes_inspected |-> dlp_w.dlp_bytes_inspected + len,
                     packets_dropped |-> IF next = "OPENSASE_DLP_NEXT_DROP"
                                         THEN dlp_w.packets_dropped + 1
                                         ELSE dlp_w.packets_dropped,
                     packets |-> dlp_w.packets + 1]
  /\ UNCHANGED notDlp

-----------------------------------------------------------------------------
(* The payload length of the inspection nodes: node_security_inspect.c      *)
(* (ips_scan_packet) and node_dlp.c (get_payload).                          *)

\* Header fields of the packets: ip4->length, the TCP data offset in bytes,
\* udp->length, and the bytes the buffer holds from the IPv4 header on.
LenIpLengths == {20, 30, 40, 60}
LenTcpHeaderBytes == {20, 40}
LenUdpLengths == {4, 8, 20}
LenBufferBytes == {24, 60}
LenIpHeaderBytes == 20
LenUdpHeaderBytes == 8

LenPkts ==
  [protocol : {IP_PROTOCOL_TCP}, ip_len : LenIpLengths, tcp_hdr_len : LenTcpHeaderBytes,
   udp_len : {0}, buf_len : LenBufferBytes]
    \cup [protocol : {IP_PROTOCOL_UDP}, ip_len : LenIpLengths, tcp_hdr_len : {0},
          udp_len : LenUdpLengths, buf_len : LenBufferBytes]

\* a - b in u32 arithmetic, as two 16-bit limbs.
U32Sub(a, b) ==
  IF a >= b THEN U32(a - b)
  ELSE <<65535 - ((b - a - 1) \div 65536), 65535 - ((b - a - 1) % 65536)>>

\* The length of the L4 header of the packet.
LenL4HeaderBytes(h) ==
  IF h.protocol = IP_PROTOCOL_TCP THEN h.tcp_hdr_len ELSE LenUdpHeaderBytes

\* ips_scan_packet: payload_len before the sanity check.
ips_payload_len(h) ==
  IF h.protocol = IP_PROTOCOL_TCP
  THEN U32Sub(h.ip_len, LenIpHeaderBytes + h.tcp_hdr_len)
  ELSE U32Sub(h.udp_len, LenUdpHeaderBytes)

\* ips_scan_packet: "Sanity check": the packet is scanned unless
\* payload_len == 0 || payload_len > 65535.
ips_scans(h) ==
  /\ ips_payload_len(h) # U32(0)
  /\ ~U32Lt(U32(65535), ips_payload_len(h))

\* ips_scan_packet: the bytes given to the scanner.
ips_scan_bytes(h) ==
  IF U32Lt(U32(1500), ips_payload_len(h)) THEN 1500 ELSE ips_payload_len(h)[2]

\* get_payload: *payload_len, capped at OPENSASE_DLP_MAX_MATCH_DEPTH.
dlp_payload_len(h) ==
  LET len == U32Sub(h.ip_len, LenIpHeaderBytes + LenL4HeaderBytes(h))
  IN IF U32Lt(U32(OPENSASE_DLP_MAX_MATCH_DEPTH), len)
     THEN OPENSASE_DLP_MAX_MATCH_DEPTH ELSE len[2]

\* What a scan can report of the bytes it is given: nothing, a match that
\* lets the packet on, a match that drops it.
LenScanResults == {"none", "alert", "drop"}

LenInit ==
  len_last = [stage |-> "none", hdr |-> [protocol |-> 0, ip_len |-> 0, tcp_hdr_len |-> 0,
                                         udp_len |-> 0, buf_len |-> 0],
              scanned |-> FALSE, scan_bytes |-> 0, result |-> "none", next |-> "none"]

\* security_inspect_node on a packet with header fields h; found is what
\* the scanner reports of the bytes it reads.
LenIpsNode(h, found) ==
  /\ LET scanned == ips_scans(h)
         result == IF scanned THEN found ELSE "none"
     IN len_last' = [stage |-> "ips", hdr |-> h, scanned |-> scanned,
                     scan_bytes |-> IF scanned THEN ips_scan_bytes(h) ELSE 0,
                     result |-> result,
                     next |-> IF result = "drop" THEN "error-drop" ELSE "nat44-in2out"]
  /\ UNCHANGED notLen

\* opensase_dlp_node on a packet with header fields h; found is what the
\* scanner reports of the bytes it reads ("alert": no critical category).
LenDlpNode(h, found) ==
  /\ LET scanned == dlp_payload_len(h) > 0
         result == IF scanned THEN found ELSE "none"
     IN len_last' = [stage |-> "dlp", hdr |-> h, scanned |-> scanned,
                     scan_bytes |-> dlp_payload_len(h),
                     result |-> result,
                     next |-> IF result = "drop" THEN "error-drop" ELSE "opensase-classify"]
  /\ UNCHANGED notLen

-----------------------------------------------------------------------------
(* The drop decisions of the nodes and the counters of one worker:          *)
(* node_security.c, node_policy.c, node_dlp.c, node_qos.c,                  *)
(* node_security_inspect.c, node_nat.c.                                     *)

\* Packets one worker runs in the model.
MaxDropPackets == 4

\* The actions of the matching policy entry; "none" for ~0.
DropPolicyActions == {"none", "ALLOW", "DENY", "INSPECT_DLP"}

\* opensase_worker_t: packets_dropped and policy_hits[OPENSASE_ACTION_DENY];
\* ips_worker_t: packets_blocked.
DropWorkerInit ==
  [packets_dropped |-> 0, policy_hits_deny |-> 0, packets_blocked |-> 0]

\* drop_routed: the packets the nodes of the worker gave to error-drop,
\* by node; drop_seen: the packets the worker has run.
DropNodes ==
  {"opensase-security", "opensase-policy", "opensase-dlp", "opensase-qos",
   "opensase-security-inspect", "opensase-nat"}

DropInit ==
  /\ drop_w = DropWorkerInit
  /\ drop_routed = [n \in DropNodes |-> 0]
  /\ drop_seen = 0

\* The packet of a node has its next node: counted when it is error-drop.
DropRoute(node, next) ==
  /\ drop_seen < MaxDropPackets
  /\ drop_seen' = drop_seen + 1
  /\ drop_routed' = [drop_routed EXCEPT ![node] = IF next = "error-drop" THEN @ + 1 ELSE @]

\* opensase_security_node on one packet; s0 is whether
\* opensase_session_lookup_or_create returned a session (NULL when the
\* table of the worker is full).
DropSecurityNext(s0) == IF s0 THEN "opensase-policy" ELSE "error-drop"

DropSecurity(s0) ==
  /\ DropRoute("opensase-security", DropSecurityNext(s0))
  /\ drop_w' = drop_w
  /\ UNCHANGED notDrop

\* opensase_policy_node on one packet whose matching entry has the action.
DropPolicyNext(action) ==
  CASE action = "DENY" -> "error-drop"
    [] action = "INSPECT_DLP" -> "opensase-dlp"
    [] action = "none" -> IF dlp_enabled THEN "opensase-dlp" ELSE "opensase-classify"
    [] OTHER -> "opensase-classify"

DropPolicy(action) ==
  /\ DropRoute("opensase-policy", DropPolicyNext(action))
  /\ drop_w' = [drop_w EXCEPT !.policy_hits_deny = IF action = "DENY" THEN @ + 1 ELSE @]
  /\ UNCHANGED notDrop

\* The scans of the DLP node and of the IPS node on the packets of the model.
DropDlpContexts == {c[2] : c \in DlpContexts}
DropIpsResults == {IpsNoMatch} \cup {hs_match_handler(IpsNoMatch, id) : id \in SignatureIds}

\* opensase_dlp_node on one packet with the matches of its scan.
DropDlp(ctx) ==
  /\ DropRoute("opensase-dlp", DlpNextNode(DlpNextOf(ctx)))
  /\ drop_w' = [drop_w EXCEPT !.packets_dropped =
                  IF DlpNextOf(ctx) = "OPENSASE_DLP_NEXT_DROP" THEN @ + 1 ELSE @]
  /\ UNCHANGED notDrop

\* opensase_qos_node on one packet: the first packet of a group of four of
\* the scavenger class is checked against the bucket of its tenant.
DropQosLimited(first_of_four, scavenger, limited) ==
  first_of_four /\ scavenger /\ limited

DropQos(first_of_four, scavenger, limited) ==
  /\ DropRoute("opensase-qos",
               IF DropQosLimited(first_of_four, scavenger, limited)
               THEN "error-drop" ELSE "ip4-lookup")
  /\ drop_w' = [drop_w EXCEPT !.packets_dropped =
                  IF DropQosLimited(first_of_four, scavenger, limited) THEN @ + 1 ELSE @]
  /\ UNCHANGED notDrop

\* security_inspect_node on one packet with the result of its scan.
DropIps(res) ==
  /\ DropRoute("opensase-security-inspect", IpsNextOf(res))
  /\ drop_w' = [drop_w EXCEPT !.packets_blocked =
                  IF res.matched /\ res.action = IPS_ACTION_DROP THEN @ + 1 ELSE @]
  /\ UNCHANGED notDrop

\* opensase_nat_node on one packet: nat_lookup or nat_create_mapping gives
\* a mapping for every packet, so the packet goes on.
DropNat ==
  /\ DropRoute("opensase-nat", "opensase-encap")
  /\ drop_w' = drop_w
  /\ UNCHANGED notDrop

-----------------------------------------------------------------------------
(* The kernel pre-filters: src/infra/xdp/ddos_filter.c and                  *)
(* src/infra/xdp/xdp_ddos_filter.c, on one CPU.                             *)

\* Packets the two programs run in the model, and the last second of the
\* clock (bpf_ktime_get_ns(), in whole seconds).
MaxXdpPackets == 2
MaxXdpNow == 1

XdpSources == {"a", "b"}
XdpSources6 == {"v6a"}

\* sizeof(struct ethhdr), sizeof(struct iphdr), sizeof(struct ipv6hdr),
\* sizeof(struct tcphdr), sizeof(struct udphdr).
XdpHeaderBytes == [eth |-> 14, ip |-> 20, ip6 |-> 40, tcp |-> 20, udp |-> 8]

\* The frames: data_end - data, the EtherType, the source address,
\* ip->protocol, ip->ihl, the UDP source port and the SYN flag without ACK.
XdpNoL3 == [src |-> "none", protocol |-> "none", ihl |-> 0, sport |-> 0, syn |-> FALSE]
XdpFrame(len, eth_proto, l3) ==
  [len |-> len, eth_proto |-> eth_proto, src |-> l3.src, protocol |-> l3.protocol,
   ihl |-> l3.ihl, sport |-> l3.sport, syn |-> l3.syn]

XdpL3 ==
  [src : XdpSources, protocol : {"IPPROTO_ICMP"}, ihl : {5}, sport : {0}, syn : {FALSE}]
    \cup [src : XdpSources, protocol : {"IPPROTO_TCP"}, ihl : {5, 15}, sport : {0}, syn : BOOLEAN]
    \cup [src : XdpSources, protocol : {"IPPROTO_UDP"}, ihl : {5, 15}, sport : {53, 4000}, syn : {FALSE}]

XdpFrames ==
  {XdpFrame(10, "ETH_P_IP", XdpNoL3)}
    \cup {XdpFrame(len, "ETH_P_ARP", XdpNoL3) : len \in {60}}
    \cup {XdpFrame(len, "ETH_P_IPV6", [XdpNoL3 EXCEPT !.src = "v6a"]) : len \in {30, 60}}
    \cup {XdpFrame(len, "ETH_P_IP", l3) : len \in {30, 60, 600}, l3 \in XdpL3}

\* (void *)(hdr + 1) > data_end for the headers of the frame.
XdpEthShort(f) == XdpHeaderBytes.eth > f.len
XdpIpShort(f) == XdpHeaderBytes.eth + XdpHeaderBytes.ip > f.len
XdpIp6Short(f) == XdpHeaderBytes.eth + XdpHeaderBytes.ip6 > f.len
XdpTcpShort(f) == XdpHeaderBytes.eth + (f.ihl * 4) + XdpHeaderBytes.tcp > f.len
XdpUdpShort(f) == XdpHeaderBytes.eth + (f.ihl * 4) + XdpHeaderBytes.udp > f.len

\* ddos_filter.c: struct xdp_stats, zeroed.
XdpStatsInit ==
  [packets_received |-> 0, packets_dropped |-> 0, packets_passed |-> 0,
   bytes_received |-> 0, bytes_dropped |-> 0, blocklist_hits |-> 0,
   rate_limit_hits |-> 0, syn_verified |-> 0]

XdpNoLimit == [pps_limit |-> 0, bps_limit |-> 0, set |-> FALSE]
XdpNoRateState == [packets |-> 0, bytes |-> 0, last_reset |-> 0, set |-> FALSE]

\* The rate limits user space gives a source.
XdpLimits == {[pps_limit |-> 1, bps_limit |-> 0, set |-> TRUE],
              [pps_limit |-> 0, bps_limit |-> 100, set |-> TRUE]}

\* ddos_filter.c check_blocklist: the exact map, then the LPM trie (fb_lpm
\* holds the addresses the prefixes of the trie cover).
check_blocklist(saddr) == saddr \in fb_blocklist \/ saddr \in fb_lpm

\* ddos_filter.c check_rate_limit: the return value and the rate_state map
\* after the call.
check_rate_limit(saddr, pkt_len) ==
  LET limit == fb_rate_limits[saddr]
      state == fb_rate_state[saddr]
  IN IF ~limit.set THEN [ret |-> 0, rate_state |-> fb_rate_state]
     ELSE IF ~state.set \/ xdp_now - state.last_reset >= 1
     THEN [ret |-> 0,
           rate_state |-> [fb_rate_state EXCEPT ![saddr] =
                             [packets |-> 1, bytes |-> pkt_len,
                              last_reset |-> xdp_now, set |-> TRUE]]]
     ELSE IF limit.pps_limit > 0 /\ state.packets >= limit.pps_limit
     THEN [ret |-> 1, rate_state |-> fb_rate_state]
     ELSE IF limit.bps_limit > 0 /\ state.bytes >= limit.bps_limit
     THEN [ret |-> 1, rate_state |-> fb_rate_state]
     ELSE [ret |-> 0,
           rate_state |-> [fb_rate_state EXCEPT ![saddr].packets = @ + 1,
                                                ![saddr].bytes = @ + pkt_len]]

\* ddos_filter.c: "Block common amplification ports"
XdpFirstAmplificationPorts == {19, 53, 123, 161, 389, 1900, 11211}

\* ddos_filter.c xdp_ddos_filter: the path the frame takes through the
\* program.
XdpFirstPath(f) ==
  IF XdpEthShort(f) THEN "eth_short"
  ELSE IF f.eth_proto = "ETH_P_IP"
  THEN IF XdpIpShort(f) THEN "ip_short"
       ELSE IF check_blocklist(f.src) THEN "blocklist"
       ELSE IF check_rate_limit(f.src, f.len).ret = 1 THEN "rate_limit"
       ELSE IF f.protocol = "IPPROTO_TCP" /\ XdpTcpShort(f) THEN "tcp_short"
       ELSE IF f.protocol = "IPPROTO_UDP" /\ XdpUdpShort(f) THEN "udp_short"
       ELSE IF f.protocol = "IPPROTO_UDP" /\ f.sport \in XdpFirstAmplificationPorts
               /\ f.len > 512
       THEN "amplification"
       ELSE "pass"
  ELSE IF f.eth_proto = "ETH_P_IPV6"
  THEN IF XdpIp6Short(f) THEN "ip6_short"
       ELSE IF f.src \in fb_blocklist_v6 THEN "blocklist_v6"
       ELSE "pass"
  ELSE "pass"

XdpFirstDropPaths == {"blocklist", "rate_limit", "amplification", "blocklist_v6"}
XdpFirstShortPaths == {"eth_short", "ip_short", "tcp_short", "udp_short", "ip6_short"}

\* ddos_filter.c xdp_ddos_filter: the counters after the frame.
XdpFirstStats(f, path) ==
  LET dropped == path \in XdpFirstDropPaths
  IN [fb_stats EXCEPT
        !.packets_received = @ + 1,
        !.bytes_received = @ + f.len,
        !.packets_dropped = IF dropped THEN @ + 1 ELSE @,
        !.bytes_dropped = IF dropped THEN @ + f.len ELSE @,
        !.blocklist_hits = IF path \in {"blocklist", "blocklist_v6"} THEN @ + 1 ELSE @,
        !.rate_limit_hits = IF path = "rate_limit" THEN @ + 1 ELSE @,
        !.packets_passed = IF path = "pass" THEN @ + 1 ELSE @]

XdpLastNone == [program |-> "none", frame |-> XdpFrame(0, "none", XdpNoL3),
                path |-> "none", verdict |-> "none", allowed |-> FALSE]

\* xdp_ddos_filter.c: struct global_config of the zeroed array map, and
\* struct protocol_stats.
XdpConfigInit == [mode |-> 0, amplification_filter |-> 0]
XdpProtocols == {"IPPROTO_ICMP", "IPPROTO_TCP", "IPPROTO_UDP"}
XdpNoSrcStats == [packets |-> 0, syn_count |-> 0, udp_count |-> 0, first_seen |-> 0, set |-> FALSE]

XdpInit ==
  /\ xdp_now = 0
  /\ xdp_seen = 0
  /\ xdp_last = XdpLastNone
  /\ fb_stats = XdpStatsInit
  /\ fb_blocklist = {}
  /\ fb_lpm = {}
  /\ fb_blocklist_v6 = {}
  /\ fb_rate_limits = [s \in XdpSources |-> XdpNoLimit]
  /\ fb_rate_state = [s \in XdpSources |-> XdpNoRateState]
  /\ sx_config = XdpConfigInit
  /\ sx_allowlist = {}
  /\ sx_blocklist = [s \in XdpSources |-> -1]
  /\ sx_src_stats = [s \in XdpSources |-> XdpNoSrcStats]
  /\ sx_proto_stats = [p \in XdpProtocols |-> [packets |-> 0, bytes |-> 0, drops |-> 0]]

\* ddos_filter.c xdp_ddos_filter on one frame.
XdpFirstFilter(f) ==
  /\ xdp_seen < MaxXdpPackets
  /\ xdp_seen' = xdp_seen + 1
  /\ LET path == XdpFirstPath(f)
         reached == f.eth_proto = "ETH_P_IP" /\ ~XdpEthShort(f) /\ ~XdpIpShort(f)
                      /\ ~check_blocklist(f.src)
     IN /\ fb_stats' = XdpFirstStats(f, path)
        /\ fb_rate_state' = IF reached THEN check_rate_limit(f.src, f.len).rate_state
                            ELSE fb_rate_state
        /\ xdp_last' = [program |-> "ddos_filter.c", frame |-> f, path |-> path,
                        verdict |-> IF path \in XdpFirstDropPaths THEN "XDP_DROP" ELSE "XDP_PASS",
                        allowed |-> FALSE]
  /\ UNCHANGED <<xdp_now, fb_blocklist, fb_lpm, fb_blocklist_v6, fb_rate_limits>>
  /\ UNCHANGED <<sx_config, sx_allowlist, sx_blocklist, sx_src_stats, sx_proto_stats>>
  /\ UNCHANGED notXdp

\* User space writes the pinned maps of ddos_filter.c.
XdpFirstBlock(src, lpm) ==
  /\ xdp_seen = 0
  /\ src \notin fb_blocklist \cup fb_lpm
  /\ fb_blocklist' = IF lpm THEN fb_blocklist ELSE fb_blocklist \cup {src}
  /\ fb_lpm' = IF lpm THEN fb_lpm \cup {src} ELSE fb_lpm
  /\ UNCHANGED <<xdp_now, xdp_seen, xdp_last, fb_stats, fb_blocklist_v6, fb_rate_limits, fb_rate_state>>
  /\ UNCHANGED <<sx_config, sx_allowlist, sx_blocklist, sx_src_stats, sx_proto_stats>>
  /\ UNCHANGED notXdp

XdpFirstBlockV6(src) ==
  /\ xdp_seen = 0
  /\ src \notin fb_blocklist_v6
  /\ fb_blocklist_v6' = fb_blocklist_v6 \cup {src}
  /\ UNCHANGED <<xdp_now, xdp_seen, xdp_last, fb_stats, fb_blocklist, fb_lpm, fb_rate_limits, fb_rate_state>>
  /\ UNCHANGED <<sx_config, sx_allowlist, sx_blocklist, sx_src_stats, sx_proto_stats>>
  /\ UNCHANGED notXdp

XdpFirstLimit(src, limit) ==
  /\ xdp_seen = 0
  /\ ~fb_rate_limits[src].set
  /\ fb_rate_limits' = [fb_rate_limits EXCEPT ![src] = limit]
  /\ UNCHANGED <<xdp_now, xdp_seen, xdp_last, fb_stats, fb_blocklist, fb_lpm, fb_blocklist_v6, fb_rate_state>>
  /\ UNCHANGED <<sx_config, sx_allowlist, sx_blocklist, sx_src_stats, sx_proto_stats>>
  /\ UNCHANGED notXdp

\* A second passes.
XdpTick ==
  /\ xdp_now < MaxXdpNow
  /\ xdp_now' = xdp_now + 1
  /\ UNCHANGED <<xdp_seen, xdp_last, fb_stats, fb_blocklist, fb_lpm, fb_blocklist_v6, fb_rate_limits, fb_rate_state>>
  /\ UNCHANGED <<sx_config, sx_allowlist, sx_blocklist, sx_src_stats, sx_proto_stats>>
  /\ UNCHANGED notXdp

\* xdp_ddos_filter.c is_blocked: the return value and the blocklist after
\* the call (an entry whose time has passed is deleted).
is_blocked(src_ip) ==
  IF sx_blocklist[src_ip] = -1 THEN [ret |-> 0, blocklist |-> sx_blocklist]
  ELSE IF xdp_now < sx_blocklist[src_ip] THEN [ret |-> 1, blocklist |-> sx_blocklist]
  ELSE [ret |-> 0, blocklist |-> [sx_blocklist EXCEPT ![src_ip] = -1]]

is_allowed(src_ip) == src_ip \in sx_allowlist

\* xdp_ddos_filter.c is_amplification
is_amplification(src_port, pkt_len) ==
  CASE src_port = 53 -> pkt_len > 512
    [] src_port \in {123, 161, 1900} -> pkt_len > 200
    [] src_port \in {389, 27015} -> pkt_len > 500
    [] src_port = 11211 -> pkt_len > 100
    [] src_port = 19 -> TRUE
    [] OTHER -> FALSE

\* xdp_ddos_filter.c check_source_anomaly: (count * 1000000000) /
\* duration_ns > threshold, for a duration of whole seconds; a duration of
\* 0 is taken as 1 ns.
XdpRateAbove(count, duration, threshold) ==
  IF duration = 0 THEN count >= 1 ELSE (count \div duration) > threshold

\* xdp_ddos_filter.c check_source_anomaly: the threat score of the source
\* statistics.
XdpScore(st) ==
  LET d == xdp_now - st.first_seen
  IN (IF XdpRateAbove(st.packets, d, 10000) THEN 200 ELSE 0)
     + (IF XdpRateAbove(st.packets, d, 50000) THEN 300 ELSE 0)
     + (IF XdpRateAbove(st.packets, d, 100000) THEN 500 ELSE 0)
     + (IF XdpRateAbove(st.syn_count, d, 100) THEN 100 ELSE 0)
     + (IF XdpRateAbove(st.syn_count, d, 1000) THEN 200 ELSE 0)
     + (IF XdpRateAbove(st.syn_count, d, 5000) THEN 300 ELSE 0)
     + (IF XdpRateAbove(st.udp_count, d, 10000) THEN 100 ELSE 0)
     + (IF XdpRateAbove(st.udp_count, d, 50000) THEN 300 ELSE 0)

\* xdp_ddos_filter.c check_source_anomaly: the return value, the source
\* statistics and the blocklist (bl) after the call.
check_source_anomaly(src_ip, bl, proto, is_syn) ==
  LET old == IF sx_src_stats[src_ip].set THEN sx_src_stats[src_ip]
             ELSE [XdpNoSrcStats EXCEPT !.first_seen = xdp_now]
      new_stats == [packets |-> old.packets + 1,
                    syn_count |-> IF is_syn THEN old.syn_count + 1 ELSE old.syn_count,
                    udp_count |-> IF proto = "IPPROTO_UDP" THEN old.udp_count + 1
                                  ELSE old.udp_count,
                    first_seen |-> old.first_seen, set |-> TRUE]
      block == XdpScore(new_stats) >= 500
  IN [ret |-> IF block THEN 1 ELSE 0,
      src_stats |-> [sx_src_stats EXCEPT ![src_ip] = new_stats],
      blocklist |-> IF block THEN [bl EXCEPT ![src_ip] = xdp_now + 60] ELSE bl]

\* xdp_ddos_filter.c xdp_ddos_filter: the path the frame takes through the
\* program.
XdpSecondPath(f) ==
  IF XdpEthShort(f) THEN "eth_short"
  ELSE IF f.eth_proto = "ETH_P_IP"
  THEN IF XdpIpShort(f) THEN "ip_short"
       ELSE IF is_allowed(f.src) THEN "allowlist"
       ELSE IF is_blocked(f.src).ret = 1 THEN "blocklist"
       ELSE IF f.protocol = "IPPROTO_TCP" /\ XdpTcpShort(f) THEN "tcp_short"
       ELSE IF f.protocol = "IPPROTO_UDP" /\ XdpUdpShort(f) THEN "udp_short"
       ELSE IF f.protocol = "IPPROTO_UDP" /\ sx_config.amplification_filter # 0
               /\ is_amplification(f.sport, f.len)
       THEN "amplification"
       ELSE IF sx_config.mode >= 1
               /\ check_source_anomaly(f.src, is_blocked(f.src).blocklist, f.protocol,
                                       f.protocol = "IPPROTO_TCP" /\ f.syn).ret = 1
       THEN "anomaly"
       ELSE "pass"
  ELSE IF f.eth_proto = "ETH_P_IPV6"
  THEN IF XdpIp6Short(f) THEN "ip6_short" ELSE "pass"
  ELSE "pass"

XdpSecondDropPaths == {"blocklist", "amplification", "anomaly"}

\* xdp_ddos_filter.c xdp_ddos_filter on one frame; found is whether the
\* lookup in proto_stats, which reads a four-byte key from the one-byte
\* proto, finds the entry of the protocol.
XdpSecondFilter(f, found) ==
  /\ xdp_seen < MaxXdpPackets
  /\ xdp_seen' = xdp_seen + 1
  /\ LET path == XdpSecondPath(f)
         looked == path \notin {"eth_short", "ip_short", "allowlist", "ip6_short"}
                     /\ f.eth_proto = "ETH_P_IP"
         counted == looked /\ path # "blocklist"
         analysed == path \in {"anomaly", "pass"} /\ f.eth_proto = "ETH_P_IP"
                       /\ sx_config.mode >= 1
         bl == IF looked THEN is_blocked(f.src).blocklist ELSE sx_blocklist
         an == check_source_anomaly(f.src, bl, f.protocol,
                                    f.protocol = "IPPROTO_TCP" /\ f.syn)
     IN /\ sx_blocklist' = IF analysed THEN an.blocklist ELSE bl
        /\ sx_src_stats' = IF analysed THEN an.src_stats ELSE sx_src_stats
        /\ sx_proto_stats' =
             IF looked /\ found
             THEN [sx_proto_stats EXCEPT
                     ![f.protocol].packets = IF counted THEN @ + 1 ELSE @,
                     ![f.protocol].bytes = IF counted THEN @ + f.len ELSE @,
                     ![f.protocol].drops = IF path \in XdpSecondDropPaths THEN @ + 1 ELSE @]
             ELSE sx_proto_stats
        /\ xdp_last' = [program |-> "xdp_ddos_filter.c", frame |-> f, path |-> path,
                        verdict |-> IF path \in XdpSecondDropPaths THEN "XDP_DROP" ELSE "XDP_PASS",
                        allowed |-> f.eth_proto = "ETH_P_IP" /\ is_allowed(f.src)]
  /\ UNCHANGED <<xdp_now, sx_config, sx_allowlist>>
  /\ UNCHANGED <<fb_stats, fb_blocklist, fb_lpm, fb_blocklist_v6, fb_rate_limits, fb_rate_state>>
  /\ UNCHANGED notXdp

\* User space writes the config map and the allowlist of xdp_ddos_filter.c.
XdpSecondConfig(mode, amplification_filter) ==
  /\ xdp_seen = 0
  /\ sx_config = XdpConfigInit
  /\ sx_config' = [mode |-> mode, amplification_filter |-> amplification_filter]
  /\ UNCHANGED <<xdp_now, xdp_seen, xdp_last, sx_allowlist, sx_blocklist, sx_src_stats, sx_proto_stats>>
  /\ UNCHANGED <<fb_stats, fb_blocklist, fb_lpm, fb_blocklist_v6, fb_rate_limits, fb_rate_state>>
  /\ UNCHANGED notXdp

XdpSecondAllow(src) ==
  /\ xdp_seen = 0
  /\ src \notin sx_allowlist
  /\ sx_allowlist' = sx_allowlist \cup {src}
  /\ UNCHANGED <<xdp_now, xdp_seen, xdp_last, sx_config, sx_blocklist, sx_src_stats, sx_proto_stats>>
  /\ UNCHANGED <<fb_stats, fb_blocklist, fb_lpm, fb_blocklist_v6, fb_rate_limits, fb_rate_state>>
  /\ UNCHANGED notXdp

-----------------------------------------------------------------------------
(* NAT44: node_nat.c.                                                       *)

\* Mappings a worker creates in the model (the program's vector grows).
MaxMappings == 3

\* tenant_pools[256]: the entries the model configures and uses.
NatTenants == {0, 1, 2}

\* Public addresses and port ranges given to "opensase nat pool".
PubAddrOf(tenant) == Ip4(198, 51, 100, tenant)
NatPortRanges == {<<10000, 10001>>, <<65534, 65535>>}

nat_mapping_timeout == 300

\* (u16) x
U16(x) == x % 65536

\* A zeroed nat_pool_t.
NoPool == [external_addr |-> <<0, 0>>, port_start |-> 0, port_end |-> 0,
           next_port |-> 0]

\* opensase_nat_init: pool 0 is the default pool, without an address
DefaultPool ==
  [external_addr |-> <<0, 0>>, port_start |-> 10000, port_end |-> 65000,
   next_port |-> 10000]

NatWorkerInit ==
  [mappings |-> <<>>,
   mapping_hash |-> <<>>,
   n_mappings |-> 0,
   tenant_pools |-> [k \in NatTenants |-> IF k = 0 THEN DefaultPool ELSE NoPool]]

\* nat_hash_key: the key as four 16-bit limbs, hashed
nat_hash_key(src, dst, src_port, dst_port, proto) ==
  clib_xxhash(<<Xor16(src[1], src_port), Xor16(src[2], dst_port),
                dst[1], Xor16(dst[2], proto)>>)

\* nat_lookup: the index of the mapping (from 1), -1 for NULL
nat_lookup(w, src, dst, src_port, dst_port, proto) ==
  HashGet(w.mapping_hash, nat_hash_key(src, dst, src_port, dst_port, proto))

\* The pool nat_create_mapping allocates from.
NatPoolIndex(w, tenant_id) ==
  LET tid == IF tenant_id >= 256 THEN 0 ELSE tenant_id
  IN IF w.tenant_pools[tid].external_addr = <<0, 0>> THEN 0 ELSE tid

\* u16 nat_port = pool->next_port++;
\* if (pool->next_port > pool->port_end) pool->next_port = pool->port_start;
NatNextPort(pool) ==
  LET n == U16(pool.next_port + 1)
  IN IF n > pool.port_end THEN pool.port_start ELSE n

\* nat_create_mapping: the worker record after the call and the index of
\* the new mapping.  pool, pool_start, pool_end, dst, dst_port and users are
\* not fields of the program: they record the pool and its range at the
\* time of the allocation, the destination of the flow and the tenants
\* whose packets were translated with the mapping.
nat_create_mapping(w, tenant_id, internal_addr, internal_port, dst, dst_port, proto, t_now) ==
  LET tid == IF tenant_id >= 256 THEN 0 ELSE tenant_id
      pix == NatPoolIndex(w, tenant_id)
      pool == w.tenant_pools[pix]
      nat_port == pool.next_port
      m == [internal_addr |-> internal_addr,
            external_addr |-> pool.external_addr,
            internal_port |-> internal_port,
            external_port |-> nat_port,
            protocol |-> proto,
            tenant_id |-> U16(tid),
            expire_time |-> t_now + nat_mapping_timeout,
            pool |-> pix, pool_start |-> pool.port_start,
            pool_end |-> pool.port_end,
            dst |-> dst, dst_port |-> dst_port, users |-> {}]
      idx == Len(w.mappings) + 1
      key == nat_hash_key(internal_addr, dst, internal_port, dst_port, proto)
  IN [w |-> [w EXCEPT
               !.tenant_pools[pix].next_port = NatNextPort(pool),
               !.mappings = Append(@, m),
               !.mapping_hash = HashSet(@, key, idx),
               !.n_mappings = @ + 1],
      idx |-> idx]

\* nat_translate: the packet with its source rewritten
nat_translate(p, m) ==
  [p EXCEPT !.src = m.external_addr,
            !.src_port = IF p.protocol \in {IP_PROTOCOL_TCP, IP_PROTOCOL_UDP}
                         THEN m.external_port ELSE @]

\* The per-packet body of opensase_nat_node.
NatPacket(w, p, t_now) ==
  LET found == nat_lookup(w, p.src, p.dst, p.src_port, p.dst_port, p.protocol)
      r == IF found # -1 THEN [w |-> w, idx |-> found]
           ELSE nat_create_mapping(w, p.tenant_id, p.src, p.src_port, p.dst,
                                   p.dst_port, p.protocol, t_now)
      m == r.w.mappings[r.idx]
  IN [w |-> [r.w EXCEPT !.mappings[r.idx].users = @ \cup {p.tenant_id}],
      idx |-> r.idx, created |-> found = -1,
      out |-> nat_translate(p, m), next |-> "ENCRYPT"]

\* Whether every port of the pool a new mapping for tenant_id would be
\* allocated from is held by a mapping that has not expired at t_now.
NatPoolExhausted(w, tenant_id, t_now) ==
  LET pix == NatPoolIndex(w, tenant_id)
      pool == w.tenant_pools[pix]
  IN \A port \in pool.port_start..pool.port_end :
       \E i \in 1..Len(w.mappings) :
         /\ w.mappings[i].pool = pix
         /\ w.mappings[i].external_addr = pool.external_addr
         /\ w.mappings[i].external_port = port
         /\ t_now <= w.mappings[i].expire_time

\* nat_last: the last packet of the node.  created says that nat_lookup
\* missed and nat_create_mapping was called; exhausted and n_before are
\* the state of the pool and n_mappings when the packet arrived.
NatInit ==
  /\ nat_workers = [t \in Threads |-> NatWorkerInit]
  /\ nat_last = [kind |-> "none", thread |-> -1, idx |-> -1, created |-> FALSE,
                 in |-> Pkt(<<0, 0>>, <<0, 0>>, 0, 0, 0, 0, 0),
                 out |-> Pkt(<<0, 0>>, <<0, 0>>, 0, 0, 0, 0, 0),
                 of |-> -1, next |-> "none", exhausted |-> FALSE,
                 n_before |-> 0]

\* opensase_nat_pool_fn: "opensase nat pool tenant <id> address <ip> ports
\* <start>-<end>", written to the pools of every worker.  The model
\* configures a pool once.
NatPoolConfig(tenant, addr, range) ==
  /\ tenant < 256
  /\ \A t \in Threads : nat_workers[t].tenant_pools[tenant] = NoPool
  /\ nat_workers' =
       [t \in Threads |->
          [nat_workers[t] EXCEPT
             !.tenant_pools[tenant] =
                [external_addr |-> addr, port_start |-> U16(range[1]),
                 port_end |-> U16(range[2]), next_port |-> U16(range[1])]]]
  /\ UNCHANGED nat_last
  /\ UNCHANGED <<stageVars, sessVars, polVars, qosVars, encVars, extVars>>

\* opensase_nat_node run by thread t on a frame holding packet p.
NatNode(t, p, kind, of) ==
  /\ \/ nat_workers[t].n_mappings < MaxMappings
     \/ nat_lookup(nat_workers[t], p.src, p.dst, p.src_port, p.dst_port,
                   p.protocol) # -1
  /\ LET r == NatPacket(nat_workers[t], p, now) IN
     /\ nat_workers' = [nat_workers EXCEPT ![t] = r.w]
     /\ nat_last' = [kind |-> kind, thread |-> t, idx |-> r.idx,
                     created |-> r.created, in |-> p, out |-> r.out,
                     of |-> of, next |-> r.next,
                     exhausted |-> NatPoolExhausted(nat_workers[t], p.tenant_id,
                                                    now),
                     n_before |-> nat_workers[t].n_mappings]
  /\ UNCHANGED <<stageVars, sessVars, polVars, qosVars, encVars, extVars>>

\* A packet of an internal host leaves through the NAT node.
NatOutbound(t, p) == NatNode(t, p, "outbound", -1)

\* The packet that answers a packet translated with mapping i: from the
\* flow's destination to the mapping's external address and port.
ReturnPacket(m) ==
  Pkt(m.dst, m.external_addr, m.dst_port, m.external_port, m.protocol,
      m.tenant_id, 64)

\* The answer to a flow of mapping i arrives and runs through the node.
NatReturn(t, i) ==
  /\ i \in 1..Len(nat_workers[t].mappings)
  /\ nat_workers[t].mappings[i].internal_addr \in {HostA, HostB}
  /\ NatNode(t, ReturnPacket(nat_workers[t].mappings[i]), "return", i)

\* A packet the session tracker of thread t has a session for goes on
\* through the pipeline and reaches the NAT node of the same thread.
NatAfterSecurity(t, p) ==
  /\ HashGet(workers[WorkerIndex(t)].session_hash,
             opensase_session_hash(p, L4Ports(p)[1], L4Ports(p)[2])) # -1
  /\ NatNode(t, p, "outbound", -1)

-----------------------------------------------------------------------------
(* Encapsulator: node_encap.c.                                              *)

\* Tunnels the model creates (MAX_TUNNELS is 4096 in the program).
MaxTunnels == 2

\* Largest data counter the model runs.
MaxCounter == 3

\* A zeroed encap_tunnel_t of the static array.
NoTunnel == [encap_type |-> "NONE", tunnel_id |-> 0, wg_counter |-> 0]

EncapIdle == [pc |-> "idle", tun |-> -1, counter |-> 0]

EncapInit ==
  /\ tunnels = [i \in 0..(MaxTunnels - 1) |-> NoTunnel]
  /\ n_tunnels = 0
  /\ enc_w = [t \in Threads |-> EncapIdle]
  /\ wg_emitted = [i \in 0..(MaxTunnels - 1) |-> <<>>]

\* opensase_tunnel_create_fn: the next entry of the table is cleared and
\* set up
TunnelCreate(type) ==
  /\ n_tunnels < MaxTunnels
  /\ tunnels' = [tunnels EXCEPT ![n_tunnels] =
                   [encap_type |-> type, tunnel_id |-> n_tunnels,
                    wg_counter |-> 0]]
  /\ n_tunnels' = n_tunnels + 1
  /\ UNCHANGED <<enc_w, wg_emitted>>
  /\ UNCHANGED <<stageVars, sessVars, polVars, qosVars, natVars, extVars>>

\* get_tunnel_for_session: op->tenant_id % (n_tunnels ? n_tunnels : 1)
get_tunnel_for_session(tenant_id) ==
  tenant_id % (IF n_tunnels # 0 THEN n_tunnels ELSE 1)

\* encap_wireguard, first half of `tun->wg_counter++`: thread t, running a
\* packet of tenant_id through the encap node, reads the counter of the
\* packet's tunnel.
EncapLoadCounter(t, tenant_id) ==
  /\ enc_w[t].pc = "idle"
  /\ LET i == get_tunnel_for_session(tenant_id) IN
     /\ tunnels[i].encap_type = "WIREGUARD"
     /\ tunnels[i].wg_counter < MaxCounter
     /\ enc_w' = [enc_w EXCEPT ![t] = [pc |-> "loaded", tun |-> i,
                                       counter |-> tunnels[i].wg_counter]]
  /\ UNCHANGED <<tunnels, n_tunnels, wg_emitted>>
  /\ UNCHANGED <<stageVars, sessVars, polVars, qosVars, natVars, extVars>>

\* The value the thread writes back to tun->wg_counter.
CounterAfter(c) == c + 1

\* encap_wireguard, second half: the value read goes into the data header
\* and the incremented value is written back.
EncapStoreCounter(t) ==
  /\ enc_w[t].pc = "loaded"
  /\ tunnels' = [tunnels EXCEPT
                   ![enc_w[t].tun].wg_counter = CounterAfter(enc_w[t].counter)]
  /\ wg_emitted' = [wg_emitted EXCEPT
                      ![enc_w[t].tun] = Append(@, enc_w[t].counter)]
  /\ enc_w' = [enc_w EXCEPT ![t] = EncapIdle]
  /\ UNCHANGED n_tunnels
  /\ UNCHANGED <<stageVars, sessVars, polVars, qosVars, natVars, extVars>>

-----------------------------------------------------------------------------
(* Encapsulator, the outer headers: node_encap.c.                           *)

\* (u16) x as its two bytes in network order, (u32) x as its four.
Be16(x) == <<(x \div 256) % 256, x % 256>>
Be32(x) == <<(x \div 16777216) % 256, (x \div 65536) % 256, (x \div 256) % 256, x % 256>>

\* The 16-bit words of a sequence of an even number of bytes.
RECURSIVE Words16(_)
Words16(bytes) ==
  IF Len(bytes) < 2 THEN <<>>
  ELSE <<(bytes[1] * 256) + bytes[2]>> \o Words16(SubSeq(bytes, 3, Len(bytes)))

\* ip4_header_checksum of the 20 header bytes, the checksum bytes left out
\* of the sum.
ip4_checksum_of(hdr) ==
  65535 - Fold16(SeqSum(Words16(SubSeq(hdr, 1, 10) \o SubSeq(hdr, 13, 20))))

\* "local" and "remote" of the commands of the model.
EncLocal == <<192, 0, 2, 1>>
EncRemote == <<192, 0, 2, 2>>

\* "remote-port" of the commands: the default of opensase_tunnel_create_fn,
\* and the VXLAN port.
EncDefaultPort == 51820
EncRemotePorts == {EncDefaultPort, 4789}

\* The inner packets: IPv4 header, UDP header, payload bytes.
InnerPacket(payload) ==
  LET len == 28 + Len(payload)
      hdr0 == <<69, 0>> \o Be16(len) \o <<0, 0, 0, 0, 64, 17, 0, 0>>
                \o <<10, 1, 0, 5>> \o <<203, 0, 113, 10>>
      hdr == SubSeq(hdr0, 1, 10) \o Be16(ip4_checksum_of(hdr0)) \o SubSeq(hdr0, 13, 20)
  IN hdr \o Be16(33000) \o Be16(53) \o Be16(8 + Len(payload)) \o <<0, 0>> \o payload

EncInners == {InnerPacket(<<>>), InnerPacket(<<1, 2, 3>>), InnerPacket(<<8, 0, 0, 0, 0, 0, 1, 0>>)}

\* ip4->length of a packet
Ip4Length(pkt) == (pkt[3] * 256) + pkt[4]

\* The outer IPv4 and UDP headers: the pre-built headers of the tunnel with
\* the lengths and the checksum set.
OuterHeaders(ports, outer_len) ==
  LET hdr0 == <<69, 0>> \o Be16(outer_len) \o <<0, 0, 0, 0, 64, IP_PROTOCOL_UDP, 0, 0>>
                \o EncLocal \o EncRemote
      hdr == SubSeq(hdr0, 1, 10) \o Be16(ip4_checksum_of(hdr0)) \o SubSeq(hdr0, 13, 20)
  IN hdr \o Be16(ports.local_port) \o Be16(ports.remote_port)
         \o Be16(outer_len - 20) \o <<0, 0>>

\* encap_vxlan: the bytes of the buffer after the call.
encap_vxlan(inner, tun, ports) ==
  LET outer_len == Ip4Length(inner) + 20 + 8 + 8
  IN OuterHeaders(ports, outer_len)
       \o Be32(134217728) \o Be32(tun.tunnel_id * 256)
       \o inner

\* encap_wireguard: the bytes of the buffer after the call; the receiver
\* index and the counter are written in host order.
encap_wireguard(inner, tun, ports) ==
  LET outer_len == Ip4Length(inner) + 20 + 8 + 16
  IN OuterHeaders(ports, outer_len)
       \o <<4, 0, 0, 0>> \o <<0, 0, 0, 0>>
       \o <<tun.wg_counter % 256, (tun.wg_counter \div 256) % 256, 0, 0, 0, 0, 0, 0>>
       \o inner

\* What the tenant classifier reads of a frame: ip4->protocol, the UDP
\* destination port and the VNI bytes of the VXLAN header.
FrameView(frame) ==
  [protocol |-> frame[10], dst_port |-> (frame[23] * 256) + frame[24],
   vni |-> <<frame[33], frame[34], frame[35]>>]

\* tenant_classifier_node on the frame: the bytes from the new current
\* position of the buffer on.
ClassifierStrip(frame) ==
  LET adv == IF is_vxlan_packet(FrameView(frame)) THEN 20 + 8 + 8 ELSE 0
  IN SubSeq(frame, adv + 1, Len(frame))

EncNoPorts == [local_port |-> 0, remote_port |-> 0]

EncLastNone ==
  [fresh |-> FALSE, inner |-> <<>>, tenant_id |-> 0, tun |-> 0,
   encap_type |-> "NONE", n_tunnels |-> 0, out |-> <<>>]

EncNodeInit ==
  /\ tun_ports = [i \in 0..(MaxTunnels - 1) |-> EncNoPorts]
  /\ tun_users = [i \in 0..(MaxTunnels - 1) |-> {}]
  /\ enc_last = EncLastNone

\* opensase_tunnel_create_fn with "remote-port": the next entry of the table
\* is cleared and set up, its UDP header built.
TunnelCreatePorts(type, remote_port) ==
  /\ n_tunnels < MaxTunnels
  /\ tunnels' = [tunnels EXCEPT ![n_tunnels] =
                   [encap_type |-> type, tunnel_id |-> n_tunnels,
                    wg_counter |-> 0]]
  /\ tun_ports' = [tun_ports EXCEPT ![n_tunnels] =
                     [local_port |-> EncDefaultPort, remote_port |-> remote_port]]
  /\ n_tunnels' = n_tunnels + 1
  /\ enc_last' = [enc_last EXCEPT !.fresh = FALSE]
  /\ UNCHANGED <<enc_w, wg_emitted, tun_users>>
  /\ UNCHANGED notEncap

\* opensase_encap_node on one packet of tenant_id by one worker: the tunnel
\* of the packet, the outer headers of its type, interface-output.
EncapNode(inner, tenant_id) ==
  LET i == get_tunnel_for_session(tenant_id)
      tun == tunnels[i]
  IN /\ \A t \in Threads : enc_w[t].pc = "idle"
     /\ tun.wg_counter < MaxCounter
     /\ enc_last' =
          [fresh |-> TRUE, inner |-> inner, tenant_id |-> tenant_id, tun |-> i,
           encap_type |-> tun.encap_type, n_tunnels |-> n_tunnels,
           out |-> CASE tun.encap_type = "WIREGUARD" -> encap_wireguard(inner, tun, tun_ports[i])
                     [] tun.encap_type = "VXLAN" -> encap_vxlan(inner, tun, tun_ports[i])
                     [] OTHER -> inner]
     /\ tunnels' = IF tun.encap_type = "WIREGUARD"
                   THEN [tunnels EXCEPT ![i].wg_counter = CounterAfter(@)]
                   ELSE tunnels
     /\ wg_emitted' = IF tun.encap_type = "WIREGUARD"
                      THEN [wg_emitted EXCEPT ![i] = Append(@, tun.wg_counter)]
                      ELSE wg_emitted
     /\ tun_users' = IF tun.encap_type # "NONE"
                     THEN [tun_users EXCEPT ![i] = @ \cup {tenant_id}]
                     ELSE tun_users
     /\ UNCHANGED <<n_tunnels, enc_w, tun_ports>>
     /\ UNCHANGED notEncap

-----------------------------------------------------------------------------
(* The control plane: the CLI handlers of node_nat.c, node_qos.c,           *)
(* node_tenant.c and node_encap.c, with the values they are given.          *)

\* "tenant" and "ports" of "opensase nat pool".
CliNatTenants == {1, 256}
CliPortRanges == {<<10000, 10001>>, <<20000, 10000>>, <<10000, 70000>>}

\* "tenant" and "class" of "opensase qos rate-limit".
CliQosTenants == {1, MAX_TENANT_LIMITERS}
CliQosClasses == {OPENSASE_QOS_SCAVENGER, OPENSASE_QOS_N_CLASSES}

CliNone ==
  [op |-> "none", tenant |-> 0, port_start |-> 0, port_end |-> 0, class |-> 0,
   full |-> FALSE, error |-> FALSE, changed |-> FALSE]

CliInit == cli_last = CliNone

\* The groups of variables no handler of the control plane writes.
cliRest == <<stageVars, sessVars, polVars, matchVars, pipeVars, qosNodeVars, graphVars, classVars, vxlanVars, ipsVars, dlpVars, lenVars, dropVars, xdpVars>>

\* opensase_nat_pool_fn: the pools of every worker after the command.
opensase_nat_pool_fn(nw, tenant_id, addr, port_start, port_end) ==
  IF tenant_id >= 256 THEN nw
  ELSE [t \in Threads |->
          [nw[t] EXCEPT
             !.tenant_pools[tenant_id] =
                [external_addr |-> addr, port_start |-> U16(port_start),
                 port_end |-> U16(port_end), next_port |-> U16(port_start)]]]

\* "opensase nat pool tenant <id> address <ip> ports <start>-<end>"
CliNatPool(tenant_id, range) ==
  /\ LET after == opensase_nat_pool_fn(nat_workers, tenant_id, PubAddrOf(1),
                                       range[1], range[2])
     IN /\ nat_workers' = after
        /\ cli_last' = [CliNone EXCEPT !.op = "nat pool", !.tenant = tenant_id,
                                       !.port_start = range[1], !.port_end = range[2],
                                       !.error = tenant_id >= 256,
                                       !.changed = after # nat_workers]
  /\ UNCHANGED <<nat_last, qosVars, encVars, tenantVars, encNodeVars, cliRest>>

\* opensase_qos_config_fn: the error returned, if any.
opensase_qos_config_error(tenant_id, qos_class) ==
  tenant_id >= MAX_TENANT_LIMITERS \/ qos_class >= OPENSASE_QOS_N_CLASSES

\* "opensase qos rate-limit tenant <id> class <c> rate <mbps>"
CliQosRateLimit(tenant_id, qos_class, rate_mbps) ==
  /\ LET err == opensase_qos_config_error(tenant_id, qos_class)
         after == IF err THEN tenant_limiters
                  ELSE [tenant_limiters EXCEPT ![<<tenant_id, qos_class>>] =
                          init_rate_limiter(rate_mbps)]
     IN /\ tenant_limiters' = after
        /\ cli_last' = [CliNone EXCEPT !.op = "qos rate-limit", !.tenant = tenant_id,
                                       !.class = qos_class, !.error = err,
                                       !.changed = after # tenant_limiters]
  /\ UNCHANGED <<qos_now, qos_last, natVars, encVars, tenantVars, encNodeVars, cliRest>>

\* opensase_tenant_add_fn: no entry of the bucket of the prefix is free.
TenantBucketFull(th, prefix) == \A i \in 0..3 : th[TenantBucket(prefix)][i].valid

\* "opensase tenant add <prefix>/<len> tenant <id> vrf <id>"
CliTenantAdd(prefix, prefix_len, tenant_id, vrf_id) ==
  /\ LET after == opensase_tenant_add_fn(tenant_hash, prefix, prefix_len, tenant_id, vrf_id)
     IN /\ tenant_hash' = after
        /\ cli_last' = [CliNone EXCEPT !.op = "tenant add", !.tenant = tenant_id,
                                       !.full = TenantBucketFull(tenant_hash, prefix),
                                       !.error = TenantBucketFull(tenant_hash, prefix),
                                       !.changed = after # tenant_hash]
  /\ UNCHANGED <<tn_last, natVars, qosVars, encVars, encNodeVars, cliRest>>

\* "opensase tunnel create local <ip> remote <ip> wireguard|vxlan"; the
\* table of the model has MaxTunnels entries.
CliTunnelCreate(type) ==
  /\ LET full == n_tunnels >= MaxTunnels
     IN /\ tunnels' = IF full THEN tunnels
                      ELSE [tunnels EXCEPT ![n_tunnels] =
                              [encap_type |-> type, tunnel_id |-> n_tunnels,
                               wg_counter |-> 0]]
        /\ tun_ports' = IF full THEN tun_ports
                        ELSE [tun_ports EXCEPT ![n_tunnels] =
                                [local_port |-> EncDefaultPort,
                                 remote_port |-> EncDefaultPort]]
        /\ n_tunnels' = IF full THEN n_tunnels ELSE n_tunnels + 1
        /\ cli_last' = [CliNone EXCEPT !.op = "tunnel create", !.full = full,
                                       !.error = full, !.changed = ~full]
  /\ UNCHANGED <<enc_w, wg_emitted, tun_users, enc_last>>
  /\ UNCHANGED <<natVars, qosVars, tenantVars, cliRest>>

-----------------------------------------------------------------------------
(* The specifications.                                                      *)

Init ==
  /\ StageInit
  /\ SessionInit
  /\ PolicyInit
  /\ QosInit
  /\ NatInit
  /\ EncapInit
  /\ MatchInit
  /\ PipeInit
  /\ QosNodeInit
  /\ GraphInit
  /\ ClassInit
  /\ TenantInit
  /\ VxInit
  /\ IpsInit
  /\ EncNodeInit
  /\ DlpInit
  /\ LenInit
  /\ DropInit
  /\ XdpInit
  /\ CliInit

\* The batch loop of any of the ten nodes, on frames of any size.
NextStage ==
  \/ \E S \in Stages, n \in 0..MaxFrame : StageBegin(S, n)
  \/ StageUnrolled
  \/ StageSingle
  \/ StageEnqueue
  \/ StageReturn

SpecStage == Init /\ [][NextStage]_vars

\* The session tracker on every thread, the clock and the expiry sweep.
NextSession ==
  \/ \E t \in Threads, p \in SessionPkts : SecurityNode(t, p)
  \/ \E d \in TickSteps : Tick(d)
  \/ \E t \in Threads : ExpireWalk(t)

SpecSession == Init /\ [][NextSession]_vars

\* The policy node of one worker and the control plane replacing the vector.
PolicyPkts == {p \in FlowPkts : p.tenant_id = 1 /\ p.src = HostA}

NextPolicy ==
  \/ \E p \in PolicyPkts, n \in 1..MaxPolicyFrame : PolicyBegin(p, n)
  \/ PolicyMatchEntry
  \/ PolicyApply
  \/ PolicyAdvance
  \/ PolicySwap

SpecPolicy == Init /\ [][NextPolicy]_vars

\* Any sequence of configurations and checks of the buckets, the clock never
\* going backwards.
NextQos ==
  \/ \E k \in QosBuckets, r \in QosRates : QosConfig(k, r)
  \/ \E k \in QosBuckets, b \in QosPacketBytes : QosCheck(k, b)
  \/ QosTick

SpecQos == Init /\ [][NextQos]_vars

\* The NAT node of one worker for the flows of one tenant, their answers,
\* the pool configuration and the clock.
NatPkts == {p \in FlowPkts : p.tenant_id = 1}

NextNat ==
  \/ \E r \in NatPortRanges : NatPoolConfig(1, PubAddrOf(1), r)
  \/ \E p \in NatPkts : NatOutbound(0, p)
  \/ \E i \in 1..MaxMappings : NatReturn(0, i)
  \/ \E d \in TickSteps : Tick(d)

SpecNat == Init /\ [][NextNat]_vars

\* One worker running the session tracker and the NAT node on the same
\* 5-tuples of two tenants, each tenant with its own pool.
IsolationPkts == {p \in FlowPkts : p.src = HostA /\ p.src_port = 33000}

NextIsolation ==
  \/ \E k \in PktTenants : NatPoolConfig(k, PubAddrOf(k), <<10000, 10001>>)
  \/ \E p \in IsolationPkts : SecurityNode(0, p)
  \/ \E p \in IsolationPkts : NatOutbound(0, p)

SpecIsolation == Init /\ [][NextIsolation]_vars

\* Tunnel creation and the encap node on every thread.
NextEncap ==
  \/ \E type \in {"WIREGUARD", "VXLAN"} : TunnelCreate(type)
  \/ \E t \in Threads, k \in PktTenants : EncapLoadCounter(t, k)
  \/ \E t \in Threads : EncapStoreCounter(t)

SpecEncap == Init /\ [][NextEncap]_vars

\* One worker: the session tracker followed by the policy node, on the
\* packets of a flow in both directions and of a flow the vector denies,
\* while the control plane installs policy vectors.
PipePkts ==
  {Pkt(HostA, Remote, 33000, 443, IP_PROTOCOL_TCP, 1, 64),
   Reverse(Pkt(HostA, Remote, 33000, 443, IP_PROTOCOL_TCP, 1, 64)),
   Pkt(HostA, Remote, 33000, 80, IP_PROTOCOL_TCP, 1, 64),
   Pkt(HostA1, Remote, 33001, 443, IP_PROTOCOL_TCP, 1, 64)}

NextPipe ==
  \/ \E p \in PipePkts : PipeSecurity(0, p)
  \/ PipePolicy
  \/ PolicySwap

SpecPipe == Init /\ [][NextPipe]_vars

\* opensase_policy_match and the routing of the policy node, on every
\* vector, packet and position of the packet in its group.
NextMatch ==
  \/ \E vec \in MatchVectors, p \in MatchPkts, k \in 0..3 :
       PolicyMatchCall(vec, p, TRUE, k)
  \/ \E vec \in MatchVectors, p \in MatchPkts :
       PolicyMatchCall(vec, p, FALSE, 0)

SpecMatch == Init /\ [][NextMatch]_vars

\* The QoS node on every thread, on frames of every size, tenant 1 being
\* given a rate limit of 1 Mbps for the scavenger class and the clock
\* advancing.
NextQosNode ==
  \/ QosConfig(<<1, OPENSASE_QOS_SCAVENGER>>, 1)
  \/ \E t \in Threads, frame \in QosFrames : QosNode(t, frame)
  \/ QosTick

SpecQosNode == Init /\ [][NextQosNode]_vars

\* One worker: the session tracker, the NAT node for the packets of tracked
\* flows, the clock and the expiry sweep of the sessions.
NextNatSession ==
  \/ \E p \in SessionPkts : SecurityNode(0, p)
  \/ \E p \in SessionPkts : NatAfterSecurity(0, p)
  \/ \E d \in TickSteps : Tick(d)
  \/ ExpireWalk(0)

SpecNatSession == Init /\ [][NextNatSession]_vars

\* One packet at a time through the node graph, of every kind and from
\* every entry.
NextGraph ==
  \/ \E e \in GraphEntries, k \in GraphKinds : GraphEnter(e, k)
  \/ GraphTenant
  \/ GraphTenantClassifier
  \/ GraphSecurity
  \/ GraphPolicy
  \/ GraphDlp
  \/ GraphClassify
  \/ GraphQos
  \/ GraphSecurityInspect
  \/ GraphNat
  \/ GraphEncap
  \/ GraphLeave

SpecGraph == Init /\ [][NextGraph]_vars

\* One packet at a time from the policy node through the classifier to the
\* QoS node.
NextClass ==
  \/ \E port \in ClassPorts, proto \in {IP_PROTOCOL_TCP, IP_PROTOCOL_UDP}, tos \in ClassTos : \E c \in 0..(OPENSASE_QOS_N_CLASSES - 1) : ClassPolicy(port, proto, tos, TRUE, c)
  \/ \E port \in ClassPorts, proto \in {IP_PROTOCOL_TCP, IP_PROTOCOL_UDP}, tos \in ClassTos : \E c \in ClassStale : ClassPolicy(port, proto, tos, FALSE, c)
  \/ \E u, q \in BOOLEAN : ClassClassify(u, q)
  \/ ClassQos

SpecClass == Init /\ [][NextClass]_vars

\* apply_dscp on every ToS byte with every class, and again on its result.
NextDscp ==
  \/ \E tos \in AllTos, c \in DscpClasses : ClassArrive(tos, c)
  \/ ClassQos
  \/ ClassRemark

SpecDscp == Init /\ [][NextDscp]_vars

\* The control plane installs tenant mappings and the tenant node looks
\* source addresses up.
NextTenant ==
  \/ \E pf \in TenantPrefixes, t \in TenantIds, v \in TenantVrfs : TenantAdd(pf[1], pf[2], t, v)
  \/ \E a \in TenantSources : TenantNode(a)

SpecTenant == Init /\ [][NextTenant]_vars

\* The CLI installs VNI mappings while a worker classifies frames.
NextVxlan ==
  \/ \E v \in VxCliVnis, t \in VxTenants, r \in VxVrfs, a \in BOOLEAN : VniAddBegin(v, t, r, a)
  \/ VniAddWrite
  \/ \E p \in VxPkts : VxClassify(p)

SpecVxlan == Init /\ [][NextVxlan]_vars

NextIpsHs ==
  \/ security_inspect_init(TRUE)
  \/ \E p \in IpsHsPkts, m \in IpsMatchSets : IpsHsBegin(p, m)
  \/ \E id \in SignatureIds : IpsHsCallback(id)
  \/ IpsHsFinish
  \/ IpsReturn

SpecIpsHs == Init /\ [][NextIpsHs]_vars

NextIpsSimple ==
  \/ security_inspect_init(FALSE)
  \/ \E p \in IpsPkts : IpsFallbackNode(p)
  \/ IpsReturn

SpecIpsSimple == Init /\ [][NextIpsSimple]_vars

\* Tunnel creation with its ports and one worker running the encap node.
NextEncapNode ==
  \/ \E type \in {"WIREGUARD", "VXLAN"}, rp \in EncRemotePorts : TunnelCreatePorts(type, rp)
  \/ \E inner \in EncInners, k \in PktTenants : EncapNode(inner, k)

SpecEncapNode == Init /\ [][NextEncapNode]_vars

\* The IPS node and the DLP node on packets of every combination of lengths.
NextLen ==
  \/ \E h \in LenPkts, found \in LenScanResults : LenIpsNode(h, found)
  \/ \E h \in LenPkts, found \in LenScanResults : LenDlpNode(h, found)

SpecLen == Init /\ [][NextLen]_vars

\* One worker running packets through its nodes, in any order.
NextDrop ==
  \/ \E s0 \in BOOLEAN : DropSecurity(s0)
  \/ \E action \in DropPolicyActions : DropPolicy(action)
  \/ \E ctx \in DropDlpContexts : DropDlp(ctx)
  \/ \E f, c, l \in BOOLEAN : DropQos(f, c, l)
  \/ \E res \in DropIpsResults : DropIps(res)
  \/ DropNat

SpecDrop == Init /\ [][NextDrop]_vars

\* ddos_filter.c on one CPU, user space writing its maps before the traffic.
NextXdpFirst ==
  \/ \E src \in XdpSources, lpm \in BOOLEAN : XdpFirstBlock(src, lpm)
  \/ \E src \in XdpSources6 : XdpFirstBlockV6(src)
  \/ \E limit \in XdpLimits : XdpFirstLimit("a", limit)
  \/ \E f \in XdpFrames : XdpFirstFilter(f)
  \/ XdpTick

SpecXdpFirst == Init /\ [][NextXdpFirst]_vars

\* The two programs on the same frames, under every configuration of
\* xdp_ddos_filter.c.
XdpUdpFrames == {f \in XdpFrames : f.protocol = "IPPROTO_UDP"}

NextXdp ==
  \/ XdpFirstBlock("b", FALSE)
  \/ \E f \in XdpUdpFrames : XdpFirstFilter(f)
  \/ \E mode \in 0..2, amp \in {0, 1} : XdpSecondConfig(mode, amp)
  \/ XdpSecondAllow("a")
  \/ \E f \in XdpFrames, found \in BOOLEAN : XdpSecondFilter(f, found)
  \/ XdpTick

SpecXdp == Init /\ [][NextXdp]_vars

\* The commands of the control plane, with valid and invalid parameters.
NextControl ==
  \/ \E k \in CliNatTenants, r \in CliPortRanges : CliNatPool(k, r)
  \/ \E k \in CliQosTenants, c \in CliQosClasses : CliQosRateLimit(k, c, 1)
  \/ \E v \in TenantVrfs : CliTenantAdd(TenantNet16, 16, 1, v)
  \/ \E type \in {"WIREGUARD", "VXLAN"} : CliTunnelCreate(type)

SpecControl == Init /\ [][NextControl]_vars

\* One worker running the DLP node.
NextDlp ==
  \/ \E p \in DlpPkts : DlpNode(p)

SpecDlp == Init /\ [][NextDlp]_vars

-----------------------------------------------------------------------------
(* The claims.                                                              *)

\* C1: when a node has run a frame of n buffers it has handed on exactly the
\* n buffers of the frame, each once and in place, and each with a next-node
\* identifier of that node (a drop is the identifier DROP, not a missing
\* entry).
C1_StageKeepsEveryBuffer ==
  st_pc = "done" =>
    /\ Len(st_out) = st_n
    /\ \A i \in 1..st_n :
         /\ st_out[i][1] = i
         /\ st_out[i][2] \in StageNextIds(st_stage)

\* A frame whose size is no multiple of the unroll width has been run by the
\* 2-wide loop and the single-packet loop and contains a dropped packet.
C1_Witness ==
  /\ st_pc = "done"
  /\ st_stage = "dlp"
  /\ st_n = 9
  /\ \E i \in 1..st_n : st_out[i][2] = "DROP"

\* C2: a session in the table of worker W was created by the thread of W and
\* has been written by no other thread, and the hash entries of W's table
\* point to sessions of W.
C2_SessionWrittenByOwnerOnly ==
  \A w \in Threads :
    /\ \A i \in 0..(MaxSessions - 1) :
         LET s == workers[w].sessions[i] IN
           /\ s.live => (s.creator = w /\ s.writers = {w})
           /\ ~s.live => s.writers \subseteq {w}
    /\ \A k \in DOMAIN workers[w].session_hash :
         workers[w].sessions[workers[w].session_hash[k]].creator = w

\* Both threads have tracked the same flow, each in its own table, and each
\* has counted more than one packet on it.
C2_Witness ==
  \E i, j \in 0..(MaxSessions - 1) :
    /\ workers[0].sessions[i].live
    /\ workers[1].sessions[j].live
    /\ workers[0].sessions[i].src = workers[1].sessions[j].src
    /\ workers[0].sessions[i].src_port = workers[1].sessions[j].src_port
    /\ workers[0].sessions[i].packets_fwd > 1
    /\ workers[1].sessions[j].packets_fwd > 1

\* C3: every packet is matched against one version of the policy vector,
\* and all the packets of one frame against the same version.
C3_FrameSeesOneVersion ==
  /\ Cardinality(pol_w.read_pkt) <= 1
  /\ Cardinality(pol_w.read_frame) <= 1

\* C4: every token bucket holds 0 <= tokens <= burst_bytes.
C4_TokensWithinBurst ==
  \A k \in QosBuckets :
    /\ 0 <= tenant_limiters[k].tokens
    /\ tenant_limiters[k].tokens <= tenant_limiters[k].burst_bytes

\* A check has refilled a bucket beyond its burst, the refill was cut back
\* to the burst, and the packet was admitted and charged.
C4_Witness ==
  /\ qos_last.op = "check"
  /\ qos_last.allow
  /\ qos_last.capped
  /\ LET tb == tenant_limiters[qos_last.bucket] IN
     /\ tb.rate_bps > 0
     /\ tb.tokens = tb.burst_bytes - 1500

\* C5: every mapping has its external port within the range of the pool it
\* was allocated from.
C5_PortWithinPool ==
  \A t \in Threads :
    \A i \in 1..Len(nat_workers[t].mappings) :
      LET m == nat_workers[t].mappings[i] IN
        /\ m.pool_start <= m.external_port
        /\ m.external_port <= m.pool_end

\* C6: no two unexpired mappings of a worker with the same protocol hold the
\* same external address and port.
C6_NoLivePortShared ==
  \A t \in Threads :
    \A i, j \in 1..Len(nat_workers[t].mappings) :
      LET m1 == nat_workers[t].mappings[i]
          m2 == nat_workers[t].mappings[j]
      IN (/\ i # j
          /\ now <= m1.expire_time
          /\ now <= m2.expire_time
          /\ m1.protocol = m2.protocol
          /\ m1.external_addr = m2.external_addr)
         => m1.external_port # m2.external_port

\* C7: the answer to a packet translated with mapping M is matched to M and
\* leaves the node addressed to M's internal address and port, its source
\* untouched.
C7_ReturnRestoresInternal ==
  nat_last.kind = "return" =>
    LET m == nat_workers[nat_last.thread].mappings[nat_last.of] IN
      /\ nat_last.idx = nat_last.of
      /\ nat_last.out = [nat_last.in EXCEPT !.dst = m.internal_addr,
                                            !.dst_port = m.internal_port]

\* C8: a session counts the packets of one tenant only, and a mapping
\* translates only the packets of the tenant it was created for.
C8_TenantsShareNothing ==
  /\ \A w \in Threads : \A i \in 0..(MaxSessions - 1) :
       Cardinality(workers[w].sessions[i].tenants) <= 1
  /\ \A t \in Threads : \A i \in 1..Len(nat_workers[t].mappings) :
       LET m == nat_workers[t].mappings[i] IN
         m.users \subseteq {m.tenant_id}

\* C9: the counters written into the data headers of one tunnel are strictly
\* increasing.
C9_CountersStrictlyIncrease ==
  \A i \in 0..(MaxTunnels - 1) :
    \A a, b \in 1..Len(wg_emitted[i]) :
      a < b => wg_emitted[i][a] < wg_emitted[i][b]

\* C10: every session present in a worker's table has
\* last_active <= now <= last_active + session_timeout.
C10_LiveSessionWithinTimeout ==
  \A w \in Threads : \A i \in 0..(MaxSessions - 1) :
    LET s == workers[w].sessions[i] IN
      s.live => (s.last_active <= now /\ now <= s.last_active + session_timeout_secs)

\* C11: whenever no packet is between the two nodes, every session holds in
\* packets_fwd and bytes_fwd the number and the bytes of the packets of its
\* 5-tuple that were handed on (not dropped by the tracker or the policy).
C11_CountersEqualAccepted ==
  pipe.pc = "idle" =>
    \A w \in Threads : \A i \in 0..(MaxSessions - 1) :
      LET s == workers[w].sessions[i]
          d == Delivered(delivered, w,
                         <<s.src, s.dst, s.src_port, s.dst_port, s.protocol>>)
      IN s.live => (s.packets_fwd = d.packets /\ s.bytes_fwd = d.bytes)

\* The entries of the vector of the last call whose predicates all match the
\* packet of the call.
C12_Matching ==
  {i \in 0..(NPolicies - 1) :
     PolicyEntryMatches(pm.vec[i], pm.pkt, L4Ports(pm.pkt)[1],
                        L4Ports(pm.pkt)[2], pm.pkt.tenant_id)}

\* C12: opensase_policy_match returns the first inserted of the matching
\* entries of lowest priority, and no-match only when no entry matches.
C12_BestPriorityFirstInserted ==
  pm.op = "match" =>
    IF C12_Matching = {} THEN pm.policy_idx = -1
    ELSE /\ pm.policy_idx \in C12_Matching
         /\ \A j \in C12_Matching :
              /\ ~U32Lt(pm.vec[j].priority, pm.vec[pm.policy_idx].priority)
              /\ (pm.vec[j].priority = pm.vec[pm.policy_idx].priority
                    => pm.policy_idx <= j)

\* C13: the policy node sends a packet to drop when the winning policy
\* denies, to DLP when the policy asks for DLP inspection or DLP is enabled
\* globally, to bypass forwarding (ip4-lookup) when the policy allows without
\* inspection, to the classifier otherwise, whatever the packet's position.
C13_RoutingByAction ==
  pm.op = "match" =>
    LET matched == pm.policy_idx # -1
        action == IF matched THEN pm.vec[pm.policy_idx].action ELSE "none"
    IN pm.next =
         (IF action = "DENY" THEN "DROP"
          ELSE IF action = "INSPECT_DLP" \/ dlp_enabled THEN "DLP"
          ELSE IF action = "ALLOW" THEN "IP4_LOOKUP"
          ELSE "CLASSIFY")

\* C14: a packet whose best matching policy denies is dropped, raises
\* policy_hits[deny] of its worker by one and leaves the session table as it
\* was before the packet: n_sessions, sessions_created and the session hash.
C14_DenyLeavesNoSession ==
  (pipe.pc = "idle" /\ pipe.matched /\ pipe.action = "DENY") =>
    LET w == workers[WorkerIndex(pipe.thread)] IN
      /\ pipe.next = "DROP"
      /\ w.policy_hits["DENY"] = pipe.before.policy_hits["DENY"] + 1
      /\ w.n_sessions = pipe.before.n_sessions
      /\ w.sessions_created = pipe.before.sessions_created
      /\ w.session_hash = pipe.before.session_hash

\* C15: every scavenger packet of a frame whose tenant has a rate limit is
\* checked against the tenant's bucket, at any position of the frame: it is
\* handed on when the refilled bucket holds its bytes, and sent to drop with
\* rate_limited set when it does not.
C15_ScavengerAlwaysChecked ==
  \A i \in 1..Len(qos_out) :
    LET o == qos_out[i] IN
      (o.qos_class = OPENSASE_QOS_SCAVENGER /\ o.limited) =>
        /\ o.checked
        /\ (o.next = "DROP") = ~o.enough
        /\ o.rate_limited = ~o.enough

\* C16: a token bucket is read and written by one worker only.
C16_BucketOfOneWorker ==
  \A k \in QosBuckets : Cardinality(qos_touch[k].threads) <= 1

\* C17: the bucket configured for a tenant is charged by the packets of that
\* tenant only.
C17_BucketOfOneTenant ==
  \A k \in QosBuckets : qos_touch[k].tenants \subseteq {k[1]}

\* C18: a packet that needs a new mapping while every port of its pool is
\* held by an unexpired mapping gets no mapping and is sent to drop.
C18_ExhaustedPoolDrops ==
  (nat_last.kind = "outbound" /\ nat_last.created /\ nat_last.exhausted) =>
    /\ nat_last.next = "DROP"
    /\ nat_workers[nat_last.thread].n_mappings = nat_last.n_before

\* C19: every mapping in a worker's table is referenced by a live session of
\* that worker (the session of the flow the mapping was created for): a
\* mapping goes when its session goes.
C19_MappingHasLiveSession ==
  \A t \in Threads : \A i \in 1..Len(nat_workers[t].mappings) :
    LET m == nat_workers[t].mappings[i] IN
      \E j \in 0..(MaxSessions - 1) :
        LET s == workers[WorkerIndex(t)].sessions[j] IN
          /\ s.live
          /\ s.src = m.internal_addr /\ s.src_port = m.internal_port
          /\ s.dst = m.dst /\ s.dst_port = m.dst_port
          /\ s.protocol = m.protocol

\* C20: a packet of the reverse direction of a tracked flow (source and
\* destination swapped) is counted on the session of that flow, creates no
\* second session, and moves the session from new to established.
C20_ReverseEstablishes ==
  \A w \in Threads : \A i \in 0..(MaxSessions - 1) :
    LET s == workers[w].sessions[i] IN
      (/\ s.live
       /\ sec_last.thread = w
       /\ sec_last.next # "none"
       /\ Tuple5(Reverse(sec_last.pkt)) =
            <<s.src, s.dst, s.src_port, s.dst_port, s.protocol>>)
      => (/\ sec_last.idx = i
          /\ ~sec_last.is_new
          /\ s.state = "ESTABLISHED")

\* C21: a packet of a new flow that arrives while n_sessions of its worker
\* equals the size of the session vector gets a session (the oldest one is
\* evicted and its slot reused): it is not dropped while the table holds a
\* session that could be evicted.
C21_FullTableEvictsOldest ==
  LET ports == L4Ports(pipe.pkt)
      hash == opensase_session_hash(pipe.pkt, ports[1], ports[2])
      w == workers[WorkerIndex(pipe.thread)]
  IN (/\ pipe.thread # -1
      /\ pipe.before.n_sessions >= MaxSessions
      /\ HashGet(pipe.before.session_hash, hash) = -1)
     => /\ pipe.idx # -1
        /\ HashGet(w.session_hash, hash) = pipe.idx
        /\ w.sessions[pipe.idx].live
        /\ w.sessions[pipe.idx].src = pipe.pkt.src
        /\ w.sessions[pipe.idx].dst = pipe.pkt.dst
        /\ w.n_sessions <= MaxSessions

\* C22: the session the tracker returns for a packet has the packet's
\* 5-tuple (source, destination, ports, protocol), also when the lookup keys
\* of two distinct 5-tuples are equal.
C22_SessionHasPacketTuple ==
  (pipe.thread # -1 /\ pipe.idx # -1) =>
    LET s == workers[WorkerIndex(pipe.thread)].sessions[pipe.idx]
        ports == L4Ports(pipe.pkt)
    IN /\ s.src = pipe.pkt.src
       /\ s.dst = pipe.pkt.dst
       /\ s.src_port = ports[1]
       /\ s.dst_port = ports[2]
       /\ s.protocol = pipe.pkt.protocol

\* The stage of the specified pipeline a node implements, by its rank in
\* the specified order; nat44-in2out is the NAT44 of VPP.
C23_StageRank(node) ==
  CASE node \in {"opensase-tenant", "tenant-classifier"} -> 1
    [] node = "opensase-security" -> 2
    [] node = "opensase-policy" -> 3
    [] node = "security-inspect" -> 4
    [] node = "opensase-dlp" -> 5
    [] node = "opensase-classify" -> 6
    [] node \in {"opensase-nat", "nat44-in2out"} -> 7
    [] node = "opensase-qos" -> 8
    [] node = "opensase-encap" -> 9
    [] OTHER -> 0

\* Ranks of the stages a packet at an output node went through, the output
\* node included (nat44-in2out is itself the NAT44 stage).
C23_Ranks ==
  {C23_StageRank(gw.path[i]) : i \in 1..Len(gw.path)} \cup {C23_StageRank(gw.node)}

\* C23: a packet that came in through a tenant classifier and reaches an
\* output node went through the stages in the specified order (tenant
\* classifier, session tracker, policy matcher, IPS, DLP, application
\* classifier, NAT44, QoS marker, encapsulator) and skipped none of session
\* tracker, policy matcher, NAT44 and encapsulator.
C23_OutputWentThroughStages ==
  (/\ gw.node \in GraphOutputNodes
   /\ gw.path # <<>>
   /\ C23_StageRank(gw.path[1]) = 1) =>
    /\ \A i, j \in 1..Len(gw.path) :
         i < j => C23_StageRank(gw.path[i]) < C23_StageRank(gw.path[j])
    /\ {2, 3, 7, 9} \subseteq C23_Ranks

\* C24: for a packet that matched a policy, the class the QoS node marks
\* with is the class of the policy, for each of the five classes: the
\* DSCP of the packet is the codepoint of the policy's class.
C24_QosUsesPolicyClass ==
  (cw.pc = "idle" /\ cw.matched) =>
    /\ cw.op.qos_class = cw.policy_class
    /\ cw.ip4.tos \div 4 = qos_to_dscp(cw.policy_class)

\* The codepoints the classes are marked with: realtime 46, business 26,
\* default 0, bulk 10, scavenger 8, and 0 for a value that is no class.
C28_Codepoint(qos_class) ==
  CASE qos_class = 0 -> 46
    [] qos_class = 1 -> 26
    [] qos_class = 2 -> 0
    [] qos_class = 3 -> 10
    [] qos_class = 4 -> 8
    [] OTHER -> 0

\* C28: for every ToS byte and every class, apply_dscp sets the upper six
\* bits to the codepoint of the class and keeps the two ECN bits, and a
\* second application with the same class changes nothing.
C28_DscpSetEcnKeptIdempotent ==
  cw.marks >= 1 =>
    /\ cw.first.tos \div 4 = C28_Codepoint(cw.op.qos_class)
    /\ cw.first.tos % 4 = cw.before.tos % 4
    /\ (cw.pc = "idle" /\ cw.marks >= 2) => cw.ip4 = cw.first

\* A bulk packet that came with another codepoint and both ECN bits set has
\* been marked twice.
C28_Witness ==
  /\ cw.pc = "idle"
  /\ cw.marks = 2
  /\ cw.op.qos_class = OPENSASE_QOS_BULK
  /\ cw.before.tos = 187
  /\ cw.ip4.tos = 43

\* The mappings installed: the valid entries of the table.
C25_Installed ==
  {tenant_hash[k][i] : k \in TenantBuckets, i \in 0..3} \ {e \in {tenant_hash[k][i] : k \in TenantBuckets, i \in 0..3} : ~e.valid}

\* The installed mappings whose prefix holds the address looked up, and the
\* longest of them.
C25_Holding == {e \in C25_Installed : PrefixEq(tn_last.src, e.src_prefix, e.prefix_len)}
C25_Longest == {e \in C25_Holding : \A f \in C25_Holding : f.prefix_len <= e.prefix_len}

\* C25: the tenant lookup gives a source address the tenant of the longest
\* installed prefix that holds it, and tenant 0 when no installed prefix
\* holds it.
C25_LongestPrefixTenant ==
  tn_last.tenant_id # -1 =>
    IF C25_Holding = {} THEN tn_last.tenant_id = 0
    ELSE tn_last.tenant_id \in {e.tenant_id : e \in C25_Longest}

\* C26: a frame whose outer header is UDP to port 4789 is given the tenant
\* installed for its VNI and loses its 36 bytes of outer headers, and goes
\* to the session tracker when the mapping has acl_bypass and to the ACL when
\* not; a frame of an unmapped VNI or without VXLAN gets tenant 0 and goes
\* to the ACL.
C26_VniTenantAndRoute ==
  vx_last.fresh =>
    LET m == IF vx_last.is_vxlan /\ vx_last.vni \in VxCliVnis
             THEN vx_installed.now[vx_last.vni] ELSE NoVniEntry
    IN /\ vx_last.advance = IF vx_last.is_vxlan THEN 36 ELSE 0
       /\ vx_last.tenant_id = IF m.valid THEN m.tenant_id ELSE 0
       /\ vx_last.next = IF m.valid /\ m.acl_bypass THEN "opensase-security"
                         ELSE "acl-plugin-in-ip4-fa"

\* C27: a lookup of VNI v finds no entry, or an entry that holds v with a
\* tenant, a VRF and an acl_bypass flag that one command installed together
\* for v.
C27_LookupSeesWholeMapping ==
  vx_last.found =>
    /\ vx_last.entry.vni = vx_last.vni
    /\ vx_last.entry \in vx_installed.all

\* A frame of VNI 1 has been given the second mapping installed for VNI 1, which
\* differs from the first in tenant, VRF and flag.
C27_Witness ==
  /\ vx_last.found
  /\ vx_last.vni = 1
  /\ vx_cli.adds = 2
  /\ \E e \in vx_installed.all :
       /\ e.vni = 1
       /\ e.tenant_id # vx_last.entry.tenant_id
       /\ e.vrf_id # vx_last.entry.vrf_id
       /\ e.acl_bypass # vx_last.entry.acl_bypass
  /\ vx_last.entry = vx_installed.now[1]

\* C29: when several signatures match one packet, in whatever order the
\* callbacks arrive, the one result carries the most severe of the matching
\* actions under the order drop > reject > alert, no callback follows one
\* that saw a drop, and a packet whose result is drop goes to error-drop.
C29_Severity(action) ==
  IF action = IPS_ACTION_DROP THEN 3 ELSE IF action = IPS_ACTION_REJECT THEN 2 ELSE 1

C30_Holds(pl, pat) == pl.pat = pat /\ pl.pre + Len(pat) <= 1500

C30_FallbackDetects ==
  (ips.path = "simple" /\ ips.pc = "done"
     /\ ips.pkt.protocol \in {IP_PROTOCOL_TCP, IP_PROTOCOL_UDP}) =>
    /\ (\E pat \in {IpsJndi, IpsUnionUpper, IpsUnionMixed} : C30_Holds(ips.pkt.payload, pat)) =>
         /\ ips.result.matched
         /\ ips.result.action = IPS_ACTION_DROP
         /\ ips.next = "error-drop"
    /\ C30_Holds(ips.pkt.payload, IpsJndi) =>
         /\ ips.result.signature_id = 4001
         /\ ips.result.category = IPS_CAT_CVE
         /\ ips_w.category_hits[IPS_CAT_CVE] = ips.hits_before + 1

\* C38: after apply_dscp has changed the ToS byte of a header whose checksum
\* was right, the checksum field is the ones-complement checksum of the
\* header as it now stands, for every old ToS byte and every class.
C38_ChecksumValidAfterMark ==
  cw.marks >= 1 => cw.first.checksum = ip4_header_checksum(cw.first)

\* The mappings of worker t allocated from pool pix before mapping i.
C39_Earlier(t, i, pix) ==
  {j \in 1..(i - 1) : nat_workers[t].mappings[j].pool = pix}

\* C39: ports are handed out round-robin per pool: the first new flow of a
\* pool gets port_start, each further one the next port, and after port_end
\* the cursor is back at port_start; a packet whose tenant has no pool of its
\* own is served from pool 0; a packet of a flow that has a mapping reuses it
\* and allocates nothing.
C39_RoundRobinPerPool ==
  /\ \A t \in Threads : \A i \in 1..Len(nat_workers[t].mappings) :
       LET m == nat_workers[t].mappings[i]
           k == Cardinality(C39_Earlier(t, i, m.pool))
       IN m.external_port = m.pool_start + (k % (m.pool_end - m.pool_start + 1))
  /\ (nat_last.kind # "none" /\ nat_last.created) =>
       LET m == nat_workers[nat_last.thread].mappings[nat_last.idx]
           tid == nat_last.in.tenant_id
       IN /\ m.pool \in {0, tid}
          /\ (tid >= 256 \/ nat_workers[nat_last.thread].tenant_pools[tid].external_addr = <<0, 0>>)
               => m.pool = 0
  /\ (nat_last.kind # "none" /\ ~nat_last.created) =>
       nat_workers[nat_last.thread].n_mappings = nat_last.n_before

\* C32: for every inner packet and every VXLAN tunnel, what the tenant
\* classifier leaves of the output of encap_vxlan is the inner packet byte
\* for byte, the VXLAN header has the I flag set and the VNI read from it is
\* the tunnel's tunnel_id; with 44 bytes stripped the same holds for the
\* WireGuard framing.
C32_DecapOfEncapIsInner ==
  enc_last.fresh =>
    /\ enc_last.encap_type = "VXLAN" =>
         /\ ClassifierStrip(enc_last.out) = enc_last.inner
         /\ enc_last.out[29] = 8
         /\ extract_vxlan_vni(FrameView(enc_last.out)) = tunnels[enc_last.tun].tunnel_id
    /\ enc_last.encap_type = "WIREGUARD" =>
         SubSeq(enc_last.out, 45, Len(enc_last.out)) = enc_last.inner

\* C33: a packet is encapsulated only into the tunnel of its own tenant, so
\* no tunnel carries packets of two tenants, and while no tunnel exists every
\* packet leaves without outer headers.
C33_TunnelOfOwnTenantOnly ==
  /\ \A i \in 0..(MaxTunnels - 1) : Cardinality(tun_users[i]) <= 1
  /\ (enc_last.fresh /\ enc_last.n_tunnels = 0) =>
       (enc_last.encap_type = "NONE" /\ enc_last.out = enc_last.inner)

\* The payload holds pat within its first 4096 bytes.
C31_Within(pl, pat) == pl.pat = pat /\ pl.pre + Len(pat) <= OPENSASE_DLP_MAX_MATCH_DEPTH

C35_Malformed(h) ==
  \/ h.ip_len < LenIpHeaderBytes + LenL4HeaderBytes(h)
  \/ h.buf_len < LenIpHeaderBytes + LenL4HeaderBytes(h)
  \/ (h.protocol = IP_PROTOCOL_UDP /\ h.udp_len < LenUdpHeaderBytes)

\* C35: a packet whose headers are truncated or inconsistent is dropped
\* as malformed; the IPS and DLP nodes neither scan it nor hand it to a
\* later node.
C35_MalformedDroppedUnscanned ==
  (len_last.stage \in {"ips", "dlp"} /\ C35_Malformed(len_last.hdr)) =>
    /\ ~len_last.scanned
    /\ len_last.next = "error-drop"

\* The packets the worker gave to error-drop, and the sum of its drop
\* counters.
C34_Routed ==
  drop_routed["opensase-security"] + drop_routed["opensase-policy"]
    + drop_routed["opensase-dlp"] + drop_routed["opensase-qos"]
    + drop_routed["opensase-security-inspect"] + drop_routed["opensase-nat"]

C34_Counted ==
  drop_w.packets_dropped + drop_w.policy_hits_deny + drop_w.packets_blocked

\* C34: after any sequence of packets every drop decision of a worker has
\* incremented one drop counter of the worker exactly once: the packets
\* routed to drop are as many as the sum of the drop counters.
C34_DropsCounted == C34_Routed = C34_Counted

\* C40: in ddos_filter.c, after any sequence of frames on one CPU,
\* packets_received = packets_dropped + packets_passed and bytes_dropped <=
\* bytes_received, whatever path the frames took.
C40_ReceivedIsDroppedPlusPassed ==
  /\ fb_stats.packets_received = fb_stats.packets_dropped + fb_stats.packets_passed
  /\ fb_stats.bytes_dropped <= fb_stats.bytes_received

\* An IPv4 UDP frame with source port 53 and more than 512 bytes.
C37_Amplification(f) ==
  /\ f.eth_proto = "ETH_P_IP"
  /\ f.protocol = "IPPROTO_UDP"
  /\ f.sport = 53
  /\ f.len > 512

\* C37: each of the two programs drops every IPv4 UDP frame with source
\* port 53 and a length above 512 whose source is not on the allowlist,
\* whatever the configuration of the filter.
C37_AmplificationDropped ==
  (xdp_last.program # "none" /\ C37_Amplification(xdp_last.frame) /\ ~xdp_last.allowed)
    => xdp_last.verdict = "XDP_DROP"

\* The last command was called with an invalid parameter.
C36_Invalid ==
  \/ /\ cli_last.op = "nat pool"
     /\ \/ cli_last.tenant >= 256
        \/ cli_last.port_start > cli_last.port_end
        \/ cli_last.port_start > 65535
        \/ cli_last.port_end > 65535
  \/ /\ cli_last.op = "qos rate-limit"
     /\ (cli_last.tenant >= MAX_TENANT_LIMITERS \/ cli_last.class >= OPENSASE_QOS_N_CLASSES)
  \/ (cli_last.op \in {"tenant add", "tunnel create"} /\ cli_last.full)

\* C36: every control-plane operation called with an invalid parameter
\* returns an error and leaves the NAT pools, the token buckets, the tenant
\* table and the tunnel table as they were.
C36_InvalidRejectedUnchanged ==
  C36_Invalid => (cli_last.error /\ ~cli_last.changed)

====
